---- MODULE Spec2Model ----
(***************************************************************************)
(* Audio signal path of firmware-rs.                                       *)
(*                                                                         *)
(*  - the SAI routing task  (blus_mini_mk2/src/audio_routing.rs)           *)
(*  - the USB ingestion     (firmware/src/usb_audio.rs, stream_handler)    *)
(*  - the dual-I2S routing task (audio_routing chunk, src/unnamed/part_000)*)
(*                                                                         *)
(* Every task is a cooperative async task: it is modelled by a program     *)
(* counter and one action per step between the places the code can         *)
(* suspend or branch.                                                      *)
(***************************************************************************)
EXTENDS Integers, Sequences, FiniteSets, TLC

\* ------------------------------------------------------------------ bounds
\* Number of sample blocks the producers of the SAI task enqueue in a run.
MaxBlocks == 3
\* Number of transport errors the output hardware raises in a run.
MaxErrors == 2
\* Milliseconds of waiting the model follows for a blocked routing task.
MaxWait == 2
\* Capacity of the SAI task's sample-block channel (SAMPLE_BLOCK_COUNT).
SAMPLE_BLOCK_COUNT == 2

\* Number of packets the USB host sends in a run.
MaxPackets == 3
\* Number of times the USB link is disconnected in a run.
MaxDisconnects == 1
\* Number of tick counts the feedback timer signals.
MaxTickUpdates == 2
\* Capacity in samples of a sample block of the SAI task (scaled down).
MAX_SAMPLE_COUNT == 3
\* Size in bytes of the largest USB packet (scaled down).
USB_MAX_PACKET_SIZE == 9

\* ------------------------------------------------------- program constants
\* Bytes of one sample word (32-bit samples).
SAMPLE_SIZE == 4
\* Slots of the zero-copy channel between ingestion and routing.
SLOT_COUNT == 1
\* Duration::from_millis(1) of the dual-I2S task's receive().with_timeout().
RECEIVE_TIMEOUT_MS == 1
\* Input channels of one frame (chunks_exact(2): left, right).
INPUT_CHANNEL_COUNT == 2
\* No deadline: the value of a wait that is not wrapped in with_timeout().
NoDeadline == 0 - 1

VARIABLES
    \* ---- SAI routing task (audio_routing.rs) ----
    pc,                 \* position of audio_routing_task
    source,             \* let mut source
    last_source,        \* let mut last_source
    sample_block,       \* the block bound by the select, or NoBlock
    queue,              \* audio_receiver's channel: FIFO of sample blocks
    led_status, led_usb, led_rpi, led_spdif,   \* indicator levels (TRUE = high)
    sai_amp, sai_rpi,   \* the two SAI sub-block drivers
    SAI_ACTIVE_SIGNAL,  \* single-slot signal: a source, or Empty
    AMP_SETUP_SIGNAL,   \* single-slot signal: TRUE when signalled
    saiWaited,          \* ms the task has been blocked in the select
    \* history of the SAI task
    steps,              \* steps taken since the last select completed
    changed,            \* this iteration found last_source != source
    retired,            \* ids of the drivers that existed when a change was found
    processed,          \* ids of the blocks handed to process()
    written,            \* ids of the blocks handed to sai_amp.write()
    droppedBlocks,      \* ids of the blocks dropped as mismatched
    discarded,          \* ids of the blocks audio_receiver.clear() removed
    ledsSet,            \* the indicators were driven at least once
    nextBlockId, nextDriverId, errCount,
    \* gain and processing in the SAI task
    usb_gain, pot_gain, \* let mut usb_gain, pot_gain: pairs (left, right)
    USB_GAIN_SIGNAL, POT_GAIN_SIGNAL,   \* single-slot signals: <<gain>> or <<>>
    filters,            \* let mut filters: per filter, the inputs it has run on
    processed_samples,  \* let mut processed_samples
    unshifted,          \* what process() left in processed_samples
    gain_left, gain_right,   \* the gains passed to the last process() call
    board,              \* the crate whose tasks run: "blus_mini_mk2",
                        \* "firmware", or "all"
    \* ---- USB ingestion (usb_audio.rs) ----
    shPc,               \* position of streaming_task / stream_handler
    usb_data,           \* the bytes read_packet() stored (data_size = its length)
    slots,              \* the zero-copy channel's sample blocks
    front, back, full,  \* the zero-copy channel's state
    USB_STREAMING_SIGNAL,
    \* history of the streaming task
    streamingSignals,   \* the values passed to USB_STREAMING_SIGNAL.signal()
    acquired,           \* total of slots acquired by sender.send()
    \* ---- feedback_task / feedback_handler (usb_audio.rs) ----
    fbPc,               \* position of the build, then of feedback_task
    usb_high_speed,     \* cfg(feature = "usb_high_speed")
    FEEDBACK_COUNTER_TICK_RATE, SAMPLE_RATE_HZ, FEEDBACK_REFRESH_PERIOD,
                        \* constants of the crate, fixed for one build
    FEEDBACK_SIGNAL,    \* single-slot signal: <<ticks>>, or <<>> when empty
    counter,            \* let counter
    packet,             \* let mut packet: Vec<u8, 4>
    fbSignalled, fbTaken, fbDisconnects,
    fbWritten,          \* the packets passed to feedback.write_packet()
    \* ---- dual-I2S routing task (audio_routing chunk) ----
    i2sPc,              \* position of audio_routing_task
    result,             \* outcome of receive().with_timeout()
    samples,            \* index of the slot receive() lent, or NoSlot
    index,              \* words filled in processed_samples_left/right
    error,              \* the block's `error` value
    running,            \* let mut running
    i2s_dac1, i2s_dac2, \* the two I2S transmitters
    i2sWaited,          \* ms the task has been blocked in receive()
    volume,             \* let mut volume: pair (left, right)
    VOLUME_SIGNAL,      \* single-slot signal: <<volume>> or <<>>
    processed_samples_left, processed_samples_right,
                        \* the words [..index] of the two static buffers
    \* history of the zero-copy hand-off
    slotWrites,         \* per slot: fills since the slot was last released
    slotReads,          \* per slot: receive() loans since it was last released
    published, received, released,   \* totals of send_done / receive / receive_done
    packetsRead, disconnects, i2sErrCount, nextDacId

saiVars == <<pc, source, last_source, sample_block, queue,
             led_status, led_usb, led_rpi, led_spdif, sai_amp, sai_rpi,
             SAI_ACTIVE_SIGNAL, AMP_SETUP_SIGNAL, saiWaited,
             steps, changed, retired, processed, written, droppedBlocks,
             ledsSet, nextBlockId, nextDriverId, errCount,
             usb_gain, pot_gain, USB_GAIN_SIGNAL, POT_GAIN_SIGNAL, filters,
             processed_samples, unshifted, gain_left, gain_right, board,
             discarded>>

procVars == <<usb_gain, pot_gain, USB_GAIN_SIGNAL, POT_GAIN_SIGNAL, filters,
              processed_samples, unshifted, gain_left, gain_right>>

usbVars == <<shPc, usb_data, slots, front, back, full, USB_STREAMING_SIGNAL,
             i2sPc, result, samples, index, error, running, i2s_dac1, i2s_dac2,
             i2sWaited, slotWrites, slotReads, published, received, released,
             packetsRead, disconnects, i2sErrCount, nextDacId,
             streamingSignals, acquired,
             fbPc, usb_high_speed, FEEDBACK_COUNTER_TICK_RATE, SAMPLE_RATE_HZ,
             FEEDBACK_REFRESH_PERIOD, FEEDBACK_SIGNAL, counter, packet,
             fbSignalled, fbTaken, fbDisconnects, fbWritten,
             volume, VOLUME_SIGNAL, processed_samples_left,
             processed_samples_right>>

volVars == <<volume, VOLUME_SIGNAL, processed_samples_left,
             processed_samples_right>>
fbVars == <<fbPc, usb_high_speed, FEEDBACK_COUNTER_TICK_RATE, SAMPLE_RATE_HZ,
            FEEDBACK_REFRESH_PERIOD, FEEDBACK_SIGNAL, counter, packet,
            fbSignalled, fbTaken, fbDisconnects, fbWritten>>
prodVars == <<shPc, usb_data, USB_STREAMING_SIGNAL, packetsRead, disconnects>>
chanVars == <<slots, front, back, full>>
consVars == <<i2sPc, result, samples, index, error, running, i2sWaited>>
dacVars == <<i2s_dac1, i2s_dac2, i2sErrCount, nextDacId>>
histVars == <<slotWrites, slotReads, published, received, released>>
streamVars == <<prodVars, chanVars, consVars, dacVars, histVars,
                streamingSignals, acquired>>

vars == <<saiVars, usbVars>>

\* ------------------------------------------------------------------ types
AudioSource == {"None", "Spdif", "Usb", "RaspberryPi"}
BlockTag == {"Spdif", "Usb"}
NoBlock == [tag |-> "NoBlock", id |-> 0, samples |-> <<>>]
NoDriver == [id |-> 0, source |-> "None", started |-> FALSE, error |-> FALSE]
Empty == "Empty"

\* source = match &x { Spdif(_) => AudioSource::Spdif, Usb(_) => AudioSource::Usb }
TagSource(x) == x.tag

\* Variant of NewSaiAmp: the amplifier side is configured as at start-up,
\* for AudioSource::None, whatever the new source is.
NewSaiAmpForNone(id, audio_source) ==
    [id |-> id, source |-> "None", started |-> FALSE, error |-> FALSE]

\* ================================================================ SAI task
\* ---- samples, gains and process() ----
\* Output channels of the amplifier side: one filter each.
OUTPUT_CHANNEL_COUNT == 4

\* A 32-bit sample word is kept as its two 16-bit halves (value
\* hi * 65536 + lo).  Full scale positive and negative, and two small words.
SampleWords ==
    { [hi |-> 32767, lo |-> 65535], [hi |-> 32768, lo |-> 1],
      [hi |-> 1, lo |-> 2], [hi |-> 65534, lo |-> 3] }

\* The samples of the block a producer sends: one stereo frame.
BlockSamples(id) ==
    IF id % 2 = 1
      THEN << [hi |-> 32767, lo |-> 65535], [hi |-> 32768, lo |-> 1] >>
      ELSE << [hi |-> 1, lo |-> 2], [hi |-> 65534, lo |-> 3] >>

\* A gain is kept as a number of halves: 0, 1, 2 stand for 0.0, 0.5, 1.0.
GainLevels == {0, 1, 2}

\* audio_filter::sample_to_f32: the word read as a signed 32-bit number; the
\* normalised value is kept as its numerator over 2^31.
SampleToF32(word) ==
    IF word.hi >= 32768
      THEN (word.hi - 65536) * 65536 + word.lo
      ELSE word.hi * 65536 + word.lo

\* audio_filter::sample_to_u32: back to the 32-bit word (two's complement).
SampleToU32(x) == [hi |-> (x \div 65536) % 65536, lo |-> x % 65536]

\* filter.run(sample): the filter's state advances by the input; its transfer
\* is taken as the identity.
FilterRun(filter, x) == [filter |-> Append(filter, x), out |-> x]

\* x * gain, the product rounded towards zero.
ApplyGain(x, gain) ==
    IF gain = 2 THEN x
    ELSE IF gain = 0 THEN 0
    ELSE IF x >= 0 THEN x \div 2 ELSE 0 - ((0 - x) \div 2)

\* processed_samples.push(..): Err once the Vec holds 2 * MAX_SAMPLE_COUNT.
PushFits(out) == Len(out) < 2 * MAX_SAMPLE_COUNT

\* Variant of ProcessSample: every sample takes the left pair of filters and
\* the left gain.
ProcessSampleAllLeft(st, pos, sample, gl, gr) ==
    LET r0 == FilterRun(st.filters[0], sample)
        r1 == FilterRun(st.filters[1], sample)
    IN  [out |-> st.out \o << SampleToU32(ApplyGain(r0.out, gl)),
                             SampleToU32(ApplyGain(r1.out, gl)) >>,
         filters |-> [st.filters EXCEPT ![0] = r0.filter, ![1] = r1.filter],
         overflow |-> st.overflow \/ ~PushFits(st.out) \/ ~PushFits(Append(st.out, 0))]

\* One iteration of the loop of process() at index pos: sample = sample_to_f32(..).
ProcessSample(st, pos, sample, gl, gr) ==
    LET a == IF pos % 2 = 0 THEN 0 ELSE 2
        b == a + 1
        gain == IF pos % 2 = 0 THEN gl ELSE gr
        ra == FilterRun(st.filters[a], sample)
        rb == FilterRun(st.filters[b], sample)
    IN  [out |-> st.out \o << SampleToU32(ApplyGain(ra.out, gain)),
                             SampleToU32(ApplyGain(rb.out, gain)) >>,
         filters |-> [st.filters EXCEPT ![a] = ra.filter, ![b] = rb.filter],
         overflow |-> st.overflow \/ ~PushFits(st.out) \/ ~PushFits(Append(st.out, 0))]

\* for index in 0..samples.len() { .. }
RECURSIVE ProcessFrom(_, _, _, _, _)
ProcessFrom(st, block, pos, gl, gr) ==
    IF pos >= Len(block) \/ st.overflow
      THEN st
      ELSE ProcessFrom(
               ProcessSample(st, pos, SampleToF32(block[pos + 1]), gl, gr),
               block, pos + 1, gl, gr)

\* process(samples, &mut processed_samples, &mut filters, gain_left, gain_right)
Process(block, out, flt, gl, gr) ==
    ProcessFrom([out |-> out, filters |-> flt, overflow |-> FALSE],
                block, 0, gl, gr)

\* Variant of Shr16: the shift of a signed word, which copies the sign bit.
Shr16Signed(word) ==
    [hi |-> IF word.hi >= 32768 THEN 65535 ELSE 0, lo |-> word.hi]

\* *sample >>= 16  (u32: zeros are shifted in)
Shr16(word) == [hi |-> 0, lo |-> word.hi]

\* Variant of UsbGain: the potentiometer's gain is taken for a Usb block.
UsbGainFromPot ==
    IF POT_GAIN_SIGNAL = <<>>
      THEN usb_gain
      ELSE <<Head(POT_GAIN_SIGNAL), Head(POT_GAIN_SIGNAL)>>

\* if let Some(gain) = USB_GAIN_SIGNAL.try_take() { usb_gain = gain; }
UsbGain == IF USB_GAIN_SIGNAL = <<>> THEN usb_gain ELSE Head(USB_GAIN_SIGNAL)

\* if let Some(gain) = POT_GAIN_SIGNAL.try_take() { pot_gain = (gain, gain); }
PotGain ==
    IF POT_GAIN_SIGNAL = <<>>
      THEN pot_gain
      ELSE <<Head(POT_GAIN_SIGNAL), Head(POT_GAIN_SIGNAL)>>

\* new_sai_amp_rpi: two freshly constructed drivers on the split sub-blocks,
\* the amplifier side configured (clock, data size) for audio_source.
NewSaiAmp(id, audio_source) ==
    [id |-> id, source |-> audio_source, started |-> FALSE, error |-> FALSE]

NewSaiRpi(id, audio_source) ==
    [id |-> id, source |-> audio_source, started |-> FALSE, error |-> FALSE]

InitSai ==
    /\ pc = "select"
    /\ source = "None"
    /\ last_source = "None"
    /\ sample_block = NoBlock
    /\ queue = <<>>
    /\ led_status \in BOOLEAN
    /\ led_usb \in BOOLEAN
    /\ led_rpi \in BOOLEAN
    /\ led_spdif \in BOOLEAN
    /\ sai_amp = NewSaiAmp(1, "None")
    /\ sai_rpi = [NewSaiRpi(2, "None") EXCEPT !.started = TRUE]
    /\ SAI_ACTIVE_SIGNAL = Empty
    /\ AMP_SETUP_SIGNAL = FALSE
    /\ saiWaited = 0
    /\ steps = <<>>
    /\ changed = FALSE
    /\ retired = {}
    /\ processed = {}
    /\ written = {}
    /\ droppedBlocks = {}
    /\ discarded = {}
    /\ ledsSet = FALSE
    /\ nextBlockId = 1
    /\ nextDriverId = 3
    /\ errCount = 0
    /\ usb_gain = <<0, 0>>
    /\ pot_gain = <<0, 0>>
    /\ USB_GAIN_SIGNAL = <<>>
    /\ POT_GAIN_SIGNAL = <<>>
    /\ filters = [k \in 0..(OUTPUT_CHANNEL_COUNT - 1) |-> <<>>]
    /\ processed_samples = <<>>
    /\ unshifted = <<>>
    /\ gain_left = 0
    /\ gain_right = 0

\* ---- environment of the SAI task ----
\* A producer (USB or S/PDIF ingestion) sends one block into the channel;
\* send() completes only while the channel holds fewer than its capacity.
Enqueue(tag) ==
    /\ nextBlockId <= MaxBlocks
    /\ Len(queue) < SAMPLE_BLOCK_COUNT
    /\ queue' = Append(queue, [tag |-> tag, id |-> nextBlockId,
                                samples |-> BlockSamples(nextBlockId)])
    /\ nextBlockId' = nextBlockId + 1
    /\ UNCHANGED <<pc, source, last_source, sample_block,
                   led_status, led_usb, led_rpi, led_spdif, sai_amp, sai_rpi,
                   SAI_ACTIVE_SIGNAL, AMP_SETUP_SIGNAL, saiWaited,
                   steps, changed, retired, processed, written, droppedBlocks,
                   ledsSet, nextDriverId, errCount>>
    /\ UNCHANGED procVars
    /\ UNCHANGED <<board, discarded>>
    /\ UNCHANGED usbVars

Produce == \E tag \in BlockTag : Enqueue(tag)

\* The transmit DMA of a running amplifier driver overruns: the error that
\* wait_write_error() and write() report.
HardwareWriteError ==
    /\ sai_amp.started
    /\ ~sai_amp.error
    /\ errCount < MaxErrors
    /\ sai_amp' = [sai_amp EXCEPT !.error = TRUE]
    /\ errCount' = errCount + 1
    /\ UNCHANGED <<pc, source, last_source, sample_block, queue,
                   led_status, led_usb, led_rpi, led_spdif, sai_rpi,
                   SAI_ACTIVE_SIGNAL, AMP_SETUP_SIGNAL, saiWaited,
                   steps, changed, retired, processed, written, droppedBlocks,
                   ledsSet, nextBlockId, nextDriverId>>
    /\ UNCHANGED procVars
    /\ UNCHANGED <<board, discarded>>
    /\ UNCHANGED usbVars

\* The dependent subsystem takes the source-change notification and
\* acknowledges it once it has reconfigured.
AmpSubsystem ==
    /\ SAI_ACTIVE_SIGNAL # Empty
    /\ SAI_ACTIVE_SIGNAL' = Empty
    /\ AMP_SETUP_SIGNAL' = TRUE
    /\ UNCHANGED <<pc, source, last_source, sample_block, queue,
                   led_status, led_usb, led_rpi, led_spdif, sai_amp, sai_rpi,
                   saiWaited,
                   steps, changed, retired, processed, written, droppedBlocks,
                   ledsSet, nextBlockId, nextDriverId, errCount>>
    /\ UNCHANGED procVars
    /\ UNCHANGED <<board, discarded>>
    /\ UNCHANGED usbVars

\* ---- the select: receive() raced against wait_write_error() ----
\* The select at the top of the loop is not wrapped in with_timeout().
SaiSelectDeadline == NoDeadline

\* Variant of LatchSource: every received block sets the source to its tag.
LatchSourceAlways(src, x) == TagSource(x)

\* if matches!(source, None) { source = tag of x }
LatchSource(src, x) == IF src = "None" THEN TagSource(x) ELSE src

\* One millisecond passes while the task is blocked in the select.
SaiTick ==
    /\ pc = "select"
    /\ queue = <<>>
    /\ ~sai_amp.error
    /\ saiWaited < MaxWait
    /\ SaiSelectDeadline = NoDeadline \/ saiWaited < SaiSelectDeadline
    /\ saiWaited' = saiWaited + 1
    /\ UNCHANGED <<pc, source, last_source, sample_block, queue,
                   led_status, led_usb, led_rpi, led_spdif, sai_amp, sai_rpi,
                   SAI_ACTIVE_SIGNAL, AMP_SETUP_SIGNAL,
                   steps, changed, retired, processed, written, droppedBlocks,
                   ledsSet, nextBlockId, nextDriverId, errCount>>
    /\ UNCHANGED procVars
    /\ UNCHANGED <<board, discarded>>
    /\ UNCHANGED usbVars

\* Either::First(x): a block is received (the first future is polled first).
SelectFirst ==
    /\ pc = "select"
    /\ queue # <<>>
    /\ sample_block' = Head(queue)
    /\ queue' = Tail(queue)
    /\ source' = LatchSource(source, Head(queue))
    /\ pc' = "check"
    /\ steps' = <<>>
    /\ changed' = FALSE
    /\ saiWaited' = 0
    /\ UNCHANGED <<last_source,
                   led_status, led_usb, led_rpi, led_spdif, sai_amp, sai_rpi,
                   SAI_ACTIVE_SIGNAL, AMP_SETUP_SIGNAL,
                   retired, processed, written, droppedBlocks,
                   ledsSet, nextBlockId, nextDriverId, errCount>>
    /\ UNCHANGED procVars
    /\ UNCHANGED <<board, discarded>>
    /\ UNCHANGED usbVars

\* Variant of SelectSecond: the write error leaves the source as it is.
SelectSecondKeepsSource ==
    /\ pc = "select"
    /\ queue = <<>>
    /\ sai_amp.error
    /\ sample_block' = NoBlock
    /\ source' = source
    /\ pc' = "check"
    /\ steps' = <<>>
    /\ changed' = FALSE
    /\ saiWaited' = 0
    /\ UNCHANGED <<last_source, queue,
                   led_status, led_usb, led_rpi, led_spdif, sai_amp, sai_rpi,
                   SAI_ACTIVE_SIGNAL, AMP_SETUP_SIGNAL,
                   retired, processed, written, droppedBlocks,
                   ledsSet, nextBlockId, nextDriverId, errCount>>
    /\ UNCHANGED procVars
    /\ UNCHANGED <<board, discarded>>
    /\ UNCHANGED usbVars

\* Either::Second(_): the amplifier driver reported a write error.
SelectSecond ==
    /\ pc = "select"
    /\ queue = <<>>
    /\ sai_amp.error
    /\ sample_block' = NoBlock
    /\ source' = "None"
    /\ pc' = "check"
    /\ steps' = <<>>
    /\ changed' = FALSE
    /\ saiWaited' = 0
    /\ UNCHANGED <<last_source, queue,
                   led_status, led_usb, led_rpi, led_spdif, sai_amp, sai_rpi,
                   SAI_ACTIVE_SIGNAL, AMP_SETUP_SIGNAL,
                   retired, processed, written, droppedBlocks,
                   ledsSet, nextBlockId, nextDriverId, errCount>>
    /\ UNCHANGED procVars
    /\ UNCHANGED <<board, discarded>>
    /\ UNCHANGED usbVars

\* ---- the source change: if last_source != source { ... } ----
CheckSourceChange ==
    /\ pc = "check"
    /\ IF last_source # source
         THEN /\ last_source' = source
              /\ changed' = TRUE
              /\ retired' = retired \cup {sai_amp.id, sai_rpi.id}
              /\ pc' = "leds"
         ELSE /\ pc' = "match"
              /\ UNCHANGED <<last_source, changed, retired>>
    /\ UNCHANGED <<source, sample_block, queue,
                   led_status, led_usb, led_rpi, led_spdif, sai_amp, sai_rpi,
                   SAI_ACTIVE_SIGNAL, AMP_SETUP_SIGNAL, saiWaited,
                   steps, processed, written, droppedBlocks,
                   ledsSet, nextBlockId, nextDriverId, errCount>>
    /\ UNCHANGED procVars
    /\ UNCHANGED <<board, discarded>>
    /\ UNCHANGED usbVars

\* Variant of SetLeds: the indicator of the new source is set high without the
\* others being set low first.
SetLedsNoClear ==
    /\ pc = "leds"
    /\ led_usb' = (led_usb \/ source = "Usb")
    /\ led_rpi' = (led_rpi \/ source = "RaspberryPi")
    /\ led_spdif' = (led_spdif \/ source = "Spdif")
    /\ led_status' = led_status
    /\ ledsSet' = TRUE
    /\ steps' = Append(steps, "leds")
    /\ pc' = "drop"
    /\ UNCHANGED <<source, last_source, sample_block, queue, sai_amp, sai_rpi,
                   SAI_ACTIVE_SIGNAL, AMP_SETUP_SIGNAL, saiWaited,
                   changed, retired, processed, written, droppedBlocks,
                   nextBlockId, nextDriverId, errCount>>
    /\ UNCHANGED procVars
    /\ UNCHANGED <<board, discarded>>
    /\ UNCHANGED usbVars

\* for led in [led_usb, led_rpi, led_spdif] { set_low } ; match source { .. }
\* led_status is not in the list and has no arm in the match.
SetLeds ==
    /\ pc = "leds"
    /\ led_usb' = (source = "Usb")
    /\ led_rpi' = (source = "RaspberryPi")
    /\ led_spdif' = (source = "Spdif")
    /\ led_status' = led_status
    /\ ledsSet' = TRUE
    /\ steps' = Append(steps, "leds")
    /\ pc' = "drop"
    /\ UNCHANGED <<source, last_source, sample_block, queue, sai_amp, sai_rpi,
                   SAI_ACTIVE_SIGNAL, AMP_SETUP_SIGNAL, saiWaited,
                   changed, retired, processed, written, droppedBlocks,
                   nextBlockId, nextDriverId, errCount>>
    /\ UNCHANGED procVars
    /\ UNCHANGED <<board, discarded>>
    /\ UNCHANGED usbVars

\* drop(sai_amp); drop(sai_rpi);
DropDrivers ==
    /\ pc = "drop"
    /\ sai_amp' = NoDriver
    /\ sai_rpi' = NoDriver
    /\ steps' = Append(steps, "drop")
    /\ pc' = "new"
    /\ UNCHANGED <<source, last_source, sample_block, queue,
                   led_status, led_usb, led_rpi, led_spdif,
                   SAI_ACTIVE_SIGNAL, AMP_SETUP_SIGNAL, saiWaited,
                   changed, retired, processed, written, droppedBlocks,
                   ledsSet, nextBlockId, nextDriverId, errCount>>
    /\ UNCHANGED procVars
    /\ UNCHANGED <<board, discarded>>
    /\ UNCHANGED usbVars

\* (sai_amp, sai_rpi) = new_sai_amp_rpi(.., SAMPLE_RATE_HZ, source);
Reconstruct ==
    /\ pc = "new"
    /\ sai_amp' = NewSaiAmp(nextDriverId, source)
    /\ sai_rpi' = NewSaiRpi(nextDriverId + 1, source)
    /\ nextDriverId' = nextDriverId + 2
    /\ steps' = Append(steps, "new")
    /\ pc' = "signal"
    /\ UNCHANGED <<source, last_source, sample_block, queue,
                   led_status, led_usb, led_rpi, led_spdif,
                   SAI_ACTIVE_SIGNAL, AMP_SETUP_SIGNAL, saiWaited,
                   changed, retired, processed, written, droppedBlocks,
                   ledsSet, nextBlockId, errCount>>
    /\ UNCHANGED procVars
    /\ UNCHANGED <<board, discarded>>
    /\ UNCHANGED usbVars

\* Variant of SignalSaiActive: the task goes on without waiting for the
\* acknowledgement.
SignalSaiActiveNoWait ==
    /\ pc = "signal"
    /\ SAI_ACTIVE_SIGNAL' = source
    /\ steps' = Append(steps, "signal")
    /\ pc' = "clear"
    /\ UNCHANGED <<source, last_source, sample_block, queue,
                   led_status, led_usb, led_rpi, led_spdif, sai_amp, sai_rpi,
                   AMP_SETUP_SIGNAL, saiWaited,
                   changed, retired, processed, written, droppedBlocks,
                   ledsSet, nextBlockId, nextDriverId, errCount>>
    /\ UNCHANGED procVars
    /\ UNCHANGED <<board, discarded>>
    /\ UNCHANGED usbVars

\* SAI_ACTIVE_SIGNAL.signal(source);
SignalSaiActive ==
    /\ pc = "signal"
    /\ SAI_ACTIVE_SIGNAL' = source
    /\ steps' = Append(steps, "signal")
    /\ pc' = "wait"
    /\ UNCHANGED <<source, last_source, sample_block, queue,
                   led_status, led_usb, led_rpi, led_spdif, sai_amp, sai_rpi,
                   AMP_SETUP_SIGNAL, saiWaited,
                   changed, retired, processed, written, droppedBlocks,
                   ledsSet, nextBlockId, nextDriverId, errCount>>
    /\ UNCHANGED procVars
    /\ UNCHANGED <<board, discarded>>
    /\ UNCHANGED usbVars

\* AMP_SETUP_SIGNAL.wait().await;  (takes the signal)
AwaitAmpSetup ==
    /\ pc = "wait"
    /\ AMP_SETUP_SIGNAL
    /\ AMP_SETUP_SIGNAL' = FALSE
    /\ steps' = Append(steps, "wait")
    /\ pc' = "clear"
    /\ UNCHANGED <<source, last_source, sample_block, queue,
                   led_status, led_usb, led_rpi, led_spdif, sai_amp, sai_rpi,
                   SAI_ACTIVE_SIGNAL, saiWaited,
                   changed, retired, processed, written, droppedBlocks,
                   ledsSet, nextBlockId, nextDriverId, errCount>>
    /\ UNCHANGED procVars
    /\ UNCHANGED <<board, discarded>>
    /\ UNCHANGED usbVars

\* audio_receiver.clear();
ClearQueue ==
    /\ pc = "clear"
    /\ queue' = <<>>
    /\ discarded' = discarded \cup { queue[k].id : k \in 1..Len(queue) }
    /\ steps' = Append(steps, "clear")
    /\ pc' = "start"
    /\ UNCHANGED <<source, last_source, sample_block,
                   led_status, led_usb, led_rpi, led_spdif, sai_amp, sai_rpi,
                   SAI_ACTIVE_SIGNAL, AMP_SETUP_SIGNAL, saiWaited,
                   changed, retired, processed, written, droppedBlocks,
                   ledsSet, nextBlockId, nextDriverId, errCount>>
    /\ UNCHANGED procVars
    /\ UNCHANGED board
    /\ UNCHANGED usbVars

\* sai_rpi.start().unwrap();
StartRpi ==
    /\ pc = "start"
    /\ sai_rpi' = [sai_rpi EXCEPT !.started = TRUE]
    /\ steps' = Append(steps, "start")
    /\ pc' = "match"
    /\ UNCHANGED <<source, last_source, sample_block, queue,
                   led_status, led_usb, led_rpi, led_spdif, sai_amp,
                   SAI_ACTIVE_SIGNAL, AMP_SETUP_SIGNAL, saiWaited,
                   changed, retired, processed, written, droppedBlocks,
                   ledsSet, nextBlockId, nextDriverId, errCount>>
    /\ UNCHANGED procVars
    /\ UNCHANGED <<board, discarded>>
    /\ UNCHANGED usbVars

\* Variant of Matches: the arm is chosen by the resolved source alone.
MatchesBySourceOnly(block, src) == src \in BlockTag

\* ---- the block: let Some(..) else continue; match (sample_block, source) ----
\* The two arms that process: (Spdif(_), Spdif) and (Usb(_), Usb).
Matches(block, src) ==
    \/ block.tag = "Spdif" /\ src = "Spdif"
    \/ block.tag = "Usb" /\ src = "Usb"

\* The arm (SampleBlock::Spdif(samples), AudioSource::Spdif).
SpdifArm ==
    LET r == Process(sample_block.samples, <<>>, filters, PotGain[1], PotGain[2])
    IN  /\ pot_gain' = PotGain
        /\ POT_GAIN_SIGNAL' = <<>>
        /\ gain_left' = PotGain[1]
        /\ gain_right' = PotGain[2]
        /\ filters' = r.filters
        /\ unshifted' = r.out
        /\ processed_samples' = [i \in 1..Len(r.out) |-> Shr16(r.out[i])]
        /\ pc' = IF r.overflow THEN "panicked" ELSE "write"
        /\ UNCHANGED <<usb_gain, USB_GAIN_SIGNAL>>

\* The arm (SampleBlock::Usb(samples), AudioSource::Usb).
UsbArm ==
    LET r == Process(sample_block.samples, <<>>, filters, UsbGain[1], UsbGain[2])
    IN  /\ usb_gain' = UsbGain
        /\ USB_GAIN_SIGNAL' = <<>>
        /\ gain_left' = UsbGain[1]
        /\ gain_right' = UsbGain[2]
        /\ filters' = r.filters
        /\ unshifted' = r.out
        /\ processed_samples' = r.out
        /\ pc' = IF r.overflow THEN "panicked" ELSE "write"
        /\ UNCHANGED <<pot_gain, POT_GAIN_SIGNAL>>

MatchBlock ==
    /\ pc = "match"
    /\ IF sample_block = NoBlock
         THEN \* continue
              /\ pc' = "select"
              /\ UNCHANGED <<sample_block, processed, droppedBlocks, steps>>
              /\ UNCHANGED procVars
         ELSE IF Matches(sample_block, source)
         THEN \* let mut processed_samples = Vec::new(); the arm of the block
              /\ IF sample_block.tag = "Spdif" THEN SpdifArm ELSE UsbArm
              /\ processed' = processed \cup {sample_block.id}
              /\ steps' = Append(steps, "process")
              /\ UNCHANGED <<sample_block, droppedBlocks>>
         ELSE \* debug!("Drop sample block ..."); continue
              /\ droppedBlocks' = droppedBlocks \cup {sample_block.id}
              /\ sample_block' = NoBlock
              /\ pc' = "select"
              /\ processed_samples' = <<>>
              /\ UNCHANGED <<processed, steps>>
              /\ UNCHANGED <<usb_gain, pot_gain, USB_GAIN_SIGNAL,
                             POT_GAIN_SIGNAL, filters, unshifted,
                             gain_left, gain_right>>
    /\ UNCHANGED <<source, last_source, queue,
                   led_status, led_usb, led_rpi, led_spdif, sai_amp, sai_rpi,
                   SAI_ACTIVE_SIGNAL, AMP_SETUP_SIGNAL, saiWaited,
                   changed, retired, written,
                   ledsSet, nextBlockId, nextDriverId, errCount>>
    /\ UNCHANGED <<board, discarded>>
    /\ UNCHANGED usbVars

\* sai_amp.write(&processed_samples).await returned Ok(()).
WriteOk ==
    /\ pc = "write"
    /\ ~sai_amp.error
    /\ written' = written \cup {sample_block.id}
    /\ sai_amp' = [sai_amp EXCEPT !.started = TRUE]
    /\ steps' = Append(steps, "write")
    /\ sample_block' = NoBlock
    /\ pc' = "select"
    /\ UNCHANGED <<source, last_source, queue,
                   led_status, led_usb, led_rpi, led_spdif, sai_rpi,
                   SAI_ACTIVE_SIGNAL, AMP_SETUP_SIGNAL, saiWaited,
                   changed, retired, processed, droppedBlocks,
                   ledsSet, nextBlockId, nextDriverId, errCount>>
    /\ UNCHANGED procVars
    /\ UNCHANGED <<board, discarded>>
    /\ UNCHANGED usbVars

\* sai_amp.write(..).await returned Err(_): .unwrap() panics, the task ends.
WriteErr ==
    /\ pc = "write"
    /\ sai_amp.error \/ errCount < MaxErrors
    /\ written' = written \cup {sample_block.id}
    /\ sai_amp' = [sai_amp EXCEPT !.started = TRUE, !.error = TRUE]
    /\ errCount' = IF sai_amp.error THEN errCount ELSE errCount + 1
    /\ steps' = Append(steps, "write_err")
    /\ pc' = "panicked"
    /\ UNCHANGED <<source, last_source, sample_block, queue,
                   led_status, led_usb, led_rpi, led_spdif, sai_rpi,
                   SAI_ACTIVE_SIGNAL, AMP_SETUP_SIGNAL, saiWaited,
                   changed, retired, processed, droppedBlocks,
                   ledsSet, nextBlockId, nextDriverId>>
    /\ UNCHANGED procVars
    /\ UNCHANGED <<board, discarded>>
    /\ UNCHANGED usbVars

SaiTask ==
    \/ SelectFirst
    \/ SelectSecond
    \/ CheckSourceChange
    \/ SetLeds
    \/ DropDrivers
    \/ Reconstruct
    \/ SignalSaiActive
    \/ AwaitAmpSetup
    \/ ClearQueue
    \/ StartRpi
    \/ MatchBlock
    \/ WriteOk
    \/ WriteErr

NextSai ==
    \/ Produce
    \/ HardwareWriteError
    \/ AmpSubsystem
    \/ SaiTick
    \/ SaiTask

\* ============================================================ USB ingestion
\* Capacity of a sample block: the samples of the largest packet.
USB_MAX_SAMPLE_COUNT == USB_MAX_PACKET_SIZE \div SAMPLE_SIZE

NoSlot == 0 - 1
SlotIndex == 0 .. (SLOT_COUNT - 1)

\* Packets the host may send: every length up to the maximum, with bytes that
\* differ from place to place.
PacketSeeds == {1, 255}
PacketByte(seed, i) == (seed * i) % 256
Packets ==
    { [i \in 1..n |-> PacketByte(seed, i)] :
        n \in 0..USB_MAX_PACKET_SIZE, seed \in PacketSeeds }

\* Variant of FromLeBytes: the first byte is taken as the most significant.
FromBeBytes(data, byte_offset) ==
    [lo |-> data[byte_offset + 4] + 256 * data[byte_offset + 3],
     hi |-> data[byte_offset + 2] + 256 * data[byte_offset + 1]]

\* u32::from_le_bytes(usb_data[byte_offset..byte_offset + SAMPLE_SIZE]).
\* A 32-bit word is kept as its two 16-bit halves, its value being
\* hi * 65536 + lo: the first byte is the least significant.
FromLeBytes(data, byte_offset) ==
    [lo |-> data[byte_offset + 1] + 256 * data[byte_offset + 2],
     hi |-> data[byte_offset + 3] + 256 * data[byte_offset + 4]]

\* let word_count = data_size / SAMPLE_SIZE;
WordCount(data_size) == data_size \div SAMPLE_SIZE

\* Variant of PacketValid: the comparison accepts a trailing partial word.
PacketValidLoose(data_size) == WordCount(data_size) * SAMPLE_SIZE <= data_size

\* if word_count * SAMPLE_SIZE == data_size
PacketValid(data_size) == WordCount(data_size) * SAMPLE_SIZE = data_size

\* for w in 0..word_count { samples.push(from_le_bytes(..)) }
DecodePacket(data) ==
    [w \in 1..WordCount(Len(data)) |-> FromLeBytes(data, (w - 1) * SAMPLE_SIZE)]

\* ---- the zero-copy channel (embassy_sync::zerocopy_channel) ----
Increment(i) == (i + 1) % SLOT_COUNT
IsFull == full
IsEmpty == ~full /\ front = back
\* Slots published by send_done() and not yet released by receive_done().
InFlight ==
    IF full THEN SlotIndex
    ELSE { i \in SlotIndex : \E k \in 0..(SLOT_COUNT - 1) :
             /\ k < (back - front + SLOT_COUNT) % SLOT_COUNT
             /\ i = (front + k) % SLOT_COUNT }

InitUsb ==
    /\ shPc = "wait_connection"
    /\ usb_data = <<>>
    /\ slots = [i \in SlotIndex |-> <<>>]
    /\ front = 0
    /\ back = 0
    /\ full = FALSE
    /\ USB_STREAMING_SIGNAL = Empty
    /\ streamingSignals = <<>>
    /\ acquired = 0
    /\ i2sPc = "receive"
    /\ result = "None"
    /\ samples = NoSlot
    /\ index = 0
    /\ error = FALSE
    /\ running = FALSE
    /\ i2s_dac1 = [id |-> 1, phase |-> "idle", calls |-> <<>>]
    /\ i2s_dac2 = [id |-> 2, phase |-> "idle", calls |-> <<>>]
    /\ i2sWaited = 0
    /\ volume = <<0, 0>>
    /\ VOLUME_SIGNAL = <<>>
    /\ processed_samples_left = <<>>
    /\ processed_samples_right = <<>>
    /\ slotWrites = [i \in SlotIndex |-> 0]
    /\ slotReads = [i \in SlotIndex |-> 0]
    /\ published = 0
    /\ received = 0
    /\ released = 0
    /\ packetsRead = 0
    /\ disconnects = 0
    /\ i2sErrCount = 0
    /\ nextDacId = 3

\* ---- streaming_task / stream_handler ----
\* stream.wait_connection().await; USB_STREAMING_SIGNAL.signal(true);
WaitConnection ==
    /\ shPc = "wait_connection"
    /\ USB_STREAMING_SIGNAL' = TRUE
    /\ streamingSignals' = Append(streamingSignals, TRUE)
    /\ shPc' = "read"
    /\ UNCHANGED <<usb_data, packetsRead, disconnects>>
    /\ UNCHANGED <<chanVars, consVars, dacVars, histVars>>
    /\ UNCHANGED <<acquired>>
    /\ UNCHANGED fbVars
    /\ UNCHANGED volVars
    /\ UNCHANGED saiVars

\* stream.read_packet(&mut usb_data).await? returned Ok(data_size).
ReadPacket(data) ==
    /\ shPc = "read"
    /\ packetsRead < MaxPackets
    /\ packetsRead' = packetsRead + 1
    /\ usb_data' = data
    /\ IF PacketValid(Len(data))
         THEN shPc' = "send"
         ELSE \* debug!("Invalid USB buffer size ..."); next iteration
              shPc' = "read"
    /\ UNCHANGED <<USB_STREAMING_SIGNAL, disconnects>>
    /\ UNCHANGED <<chanVars, consVars, dacVars, histVars>>
    /\ UNCHANGED <<streamingSignals, acquired>>
    /\ UNCHANGED fbVars
    /\ UNCHANGED volVars
    /\ UNCHANGED saiVars

ReadAnyPacket == \E data \in Packets : ReadPacket(data)

\* Variant of ReadDisconnected: the task waits for the next connection
\* without signalling the end of the stream.
ReadDisconnectedNoSignal ==
    /\ shPc = "read"
    /\ disconnects < MaxDisconnects
    /\ disconnects' = disconnects + 1
    /\ shPc' = "wait_connection"
    /\ UNCHANGED <<usb_data, packetsRead, USB_STREAMING_SIGNAL>>
    /\ UNCHANGED <<chanVars, consVars, dacVars, histVars>>
    /\ UNCHANGED <<streamingSignals, acquired>>
    /\ UNCHANGED <<streamingSignals, acquired>>
    /\ UNCHANGED fbVars
    /\ UNCHANGED volVars
    /\ UNCHANGED saiVars

\* read_packet() returned Err(EndpointError::BufferOverflow): the conversion
\* into Disconnected that `?` applies panics ("Buffer overflow").
ReadBufferOverflow ==
    /\ shPc = "read"
    /\ shPc' = "buffer_overflow_panic"
    /\ UNCHANGED <<usb_data, packetsRead, disconnects, USB_STREAMING_SIGNAL>>
    /\ UNCHANGED <<chanVars, consVars, dacVars, histVars>>
    /\ UNCHANGED <<streamingSignals, acquired>>
    /\ UNCHANGED fbVars
    /\ UNCHANGED volVars
    /\ UNCHANGED saiVars

\* read_packet() returned Err(EndpointError::Disabled): `?` leaves
\* stream_handler, streaming_task signals false and waits again.
ReadDisconnected ==
    /\ shPc = "read"
    /\ disconnects < MaxDisconnects
    /\ disconnects' = disconnects + 1
    /\ USB_STREAMING_SIGNAL' = FALSE
    /\ streamingSignals' = Append(streamingSignals, FALSE)
    /\ shPc' = "wait_connection"
    /\ UNCHANGED <<usb_data, packetsRead>>
    /\ UNCHANGED <<chanVars, consVars, dacVars, histVars>>
    /\ UNCHANGED <<acquired>>
    /\ UNCHANGED fbVars
    /\ UNCHANGED volVars
    /\ UNCHANGED saiVars

\* Variant of AcquireSlot: the slot is taken without waiting for the channel
\* to have room.
AcquireSlotNoWait ==
    /\ shPc = "send"
    /\ acquired' = acquired + 1
    /\ shPc' = "fill"
    /\ UNCHANGED <<usb_data, USB_STREAMING_SIGNAL, packetsRead, disconnects>>
    /\ UNCHANGED <<chanVars, consVars, dacVars, histVars>>
    /\ UNCHANGED <<streamingSignals>>
    /\ UNCHANGED fbVars
    /\ UNCHANGED volVars
    /\ UNCHANGED saiVars

\* let samples = sender.send().await;  (ready once the channel is not full)
AcquireSlot ==
    /\ shPc = "send"
    /\ ~IsFull
    /\ acquired' = acquired + 1
    /\ shPc' = "fill"
    /\ UNCHANGED <<usb_data, USB_STREAMING_SIGNAL, packetsRead, disconnects>>
    /\ UNCHANGED <<chanVars, consVars, dacVars, histVars>>
    /\ UNCHANGED <<streamingSignals>>
    /\ UNCHANGED fbVars
    /\ UNCHANGED volVars
    /\ UNCHANGED saiVars

\* push_done(): back advances; the channel is full when back meets front.
SendDone ==
    /\ back' = Increment(back)
    /\ full' = (Increment(back) = front)
    /\ published' = published + 1

\* Variant of FillSlot: the slot is not cleared before the samples are pushed.
FillSlotNoClear ==
    /\ shPc = "fill"
    /\ slots' = [slots EXCEPT ![back] = @ \o DecodePacket(usb_data)]
    /\ slotWrites' = [slotWrites EXCEPT ![back] = @ + 1]
    /\ SendDone
    /\ shPc' = "read"
    /\ UNCHANGED <<usb_data, USB_STREAMING_SIGNAL, packetsRead, disconnects>>
    /\ UNCHANGED <<front, slotReads, received, released>>
    /\ UNCHANGED <<consVars, dacVars>>
    /\ UNCHANGED <<streamingSignals, acquired>>
    /\ UNCHANGED fbVars
    /\ UNCHANGED volVars
    /\ UNCHANGED saiVars

\* samples.clear(); for w in 0..word_count { push(..).unwrap() }; send_done();
FillSlot ==
    /\ shPc = "fill"
    /\ IF WordCount(Len(usb_data)) > USB_MAX_SAMPLE_COUNT
         THEN \* push() returned Err: unwrap() panics
              /\ shPc' = "panicked"
              /\ UNCHANGED <<slots, back, full, published, slotWrites>>
         ELSE /\ slots' = [slots EXCEPT ![back] = DecodePacket(usb_data)]
              /\ slotWrites' = [slotWrites EXCEPT ![back] = @ + 1]
              /\ SendDone
              /\ shPc' = "read"
    /\ UNCHANGED <<usb_data, USB_STREAMING_SIGNAL, packetsRead, disconnects>>
    /\ UNCHANGED <<front, slotReads, received, released>>
    /\ UNCHANGED <<consVars, dacVars>>
    /\ UNCHANGED <<streamingSignals, acquired>>
    /\ UNCHANGED fbVars
    /\ UNCHANGED volVars
    /\ UNCHANGED saiVars

StreamingTask ==
    \/ WaitConnection
    \/ ReadAnyPacket
    \/ ReadDisconnected
    \/ ReadBufferOverflow
    \/ AcquireSlot
    \/ FillSlot

\* ======================================================== dual-I2S routing
\* Variant of I2sReceiveDeadline: receive() awaited without with_timeout().
I2sReceiveNoDeadline == NoDeadline

\* .with_timeout(Duration::from_millis(1))
I2sReceiveDeadline == RECEIVE_TIMEOUT_MS

\* new_i2s / new_i2s2: a freshly constructed transmitter.  `calls` is the
\* sequence of driver calls made on the instance since it was constructed.
NewI2s(id) == [id |-> id, phase |-> "idle", calls |-> <<>>]

\* The calls of the output driver contract, as made on one transmitter.
\* i2s_dac.clear()
Clear(dac) == [dac EXCEPT !.calls = Append(@, "clear")]
\* i2s_dac.write_immediate(..)
WriteImmediate(dac) == [dac EXCEPT !.calls = Append(@, "write_immediate")]
\* i2s_dac.start()
Start(dac) == [dac EXCEPT !.phase = "running", !.calls = Append(@, "start")]
\* i2s_dac.write(..)
Write(dac) == [dac EXCEPT !.calls = Append(@, "write")]
\* i2s_dac.stop().await
Stop(dac) == [dac EXCEPT !.phase = "stopped", !.calls = Append(@, "stop")]

\* Variant of NewVolume: a pending volume is left in the signal.
NewVolumeIgnored == volume

\* if let Some(new_volume) = VOLUME_SIGNAL.try_take() { volume = new_volume; }
NewVolume == IF VOLUME_SIGNAL = <<>> THEN volume ELSE Head(VOLUME_SIGNAL)

\* One millisecond passes while the task is blocked in receive(); the timer of
\* with_timeout() lets no time pass beyond its deadline.
I2sTick ==
    /\ i2sPc = "receive"
    /\ IsEmpty
    /\ i2sWaited < MaxWait
    /\ I2sReceiveDeadline = NoDeadline \/ i2sWaited < I2sReceiveDeadline
    /\ i2sWaited' = i2sWaited + 1
    /\ UNCHANGED <<i2sPc, result, samples, index, error, running>>
    /\ UNCHANGED <<prodVars, chanVars, dacVars, histVars>>
    /\ UNCHANGED <<streamingSignals, acquired>>
    /\ UNCHANGED fbVars
    /\ UNCHANGED volVars
    /\ UNCHANGED saiVars

\* receive() completed first: Ok(samples), a loan of the front slot.
I2sReceiveOk ==
    /\ i2sPc = "receive"
    /\ ~IsEmpty
    /\ result' = "Ok"
    /\ volume' = NewVolume
    /\ VOLUME_SIGNAL' = <<>>
    /\ samples' = front
    /\ slotReads' = [slotReads EXCEPT ![front] = @ + 1]
    /\ received' = received + 1
    /\ i2sWaited' = 0
    /\ i2sPc' = "process"
    /\ UNCHANGED <<index, error, running, slotWrites, published, released>>
    /\ UNCHANGED <<prodVars, chanVars, dacVars>>
    /\ UNCHANGED <<streamingSignals, acquired>>
    /\ UNCHANGED fbVars
    /\ UNCHANGED <<processed_samples_left, processed_samples_right>>
    /\ UNCHANGED saiVars

\* The deadline expired first: Err(TimeoutError); `error` is true.
I2sReceiveTimeout ==
    /\ i2sPc = "receive"
    /\ IsEmpty
    /\ I2sReceiveDeadline # NoDeadline
    /\ i2sWaited >= I2sReceiveDeadline
    /\ result' = "Timeout"
    /\ volume' = NewVolume
    /\ VOLUME_SIGNAL' = <<>>
    /\ error' = TRUE
    /\ i2sWaited' = 0
    /\ i2sPc' = "check"
    /\ UNCHANGED <<samples, index, running>>
    /\ UNCHANGED <<prodVars, chanVars, dacVars, histVars>>
    /\ UNCHANGED <<streamingSignals, acquired>>
    /\ UNCHANGED fbVars
    /\ UNCHANGED <<processed_samples_left, processed_samples_right>>
    /\ UNCHANGED saiVars

\* for chunk in samples.chunks_exact(2) { ...; index += 4; }
ChunkIndex(block) == 4 * (Len(block) \div 2)

\* The four words a chunk leaves in one buffer: (sample >> 16) as u16,
\* sample as u16, 0, 0, with sample = sample_to_u32(sample_to_f32(x) * gain).
ChunkWords(x, gain) ==
    LET sample == SampleToU32(ApplyGain(SampleToF32(x), gain))
    IN  <<sample.hi, sample.lo, 0, 0>>

\* processed_samples_left[..index] (channel 1) or _right (channel 2) after
\* the loop over chunks_exact(2).
BufferOf(block, channel, gain) ==
    [k \in 1..ChunkIndex(block) |->
        ChunkWords(block[2 * ((k - 1) \div 4) + channel], gain)[((k - 1) % 4) + 1]]

I2sProcess ==
    /\ i2sPc = "process"
    /\ index' = ChunkIndex(slots[samples])
    /\ processed_samples_left' = BufferOf(slots[samples], 1, volume[1])
    /\ processed_samples_right' = BufferOf(slots[samples], 2, volume[2])
    /\ UNCHANGED <<volume, VOLUME_SIGNAL>>
    /\ i2sPc' = "write"
    /\ UNCHANGED <<result, samples, error, running, i2sWaited>>
    /\ UNCHANGED <<prodVars, chanVars, dacVars, histVars>>
    /\ UNCHANGED <<streamingSignals, acquired>>
    /\ UNCHANGED fbVars
    /\ UNCHANGED saiVars

\* Variant of I2sWriteCall: write() is called whether or not the transmitters
\* are running.
I2sWriteCallAlwaysWrite ==
    /\ i2sPc = "write"
    /\ i2s_dac1' = Write(i2s_dac1)
    /\ i2s_dac2' = Write(i2s_dac2)
    /\ i2sPc' = "join"
    /\ UNCHANGED <<result, samples, index, error, running, i2sWaited>>
    /\ UNCHANGED <<i2sErrCount, nextDacId>>
    /\ UNCHANGED <<prodVars, chanVars, histVars>>
    /\ UNCHANGED <<streamingSignals, acquired>>
    /\ UNCHANGED fbVars
    /\ UNCHANGED volVars
    /\ UNCHANGED saiVars

\* if !running { i2s_dac1.clear(); i2s_dac2.clear();
\*               join(write_immediate, write_immediate) }
\* else { join(write, write) }          (up to the .await of the join)
I2sWriteCall ==
    /\ i2sPc = "write"
    /\ IF ~running
         THEN /\ i2s_dac1' = WriteImmediate(Clear(i2s_dac1))
              /\ i2s_dac2' = WriteImmediate(Clear(i2s_dac2))
         ELSE /\ i2s_dac1' = Write(i2s_dac1)
              /\ i2s_dac2' = Write(i2s_dac2)
    /\ i2sPc' = "join"
    /\ UNCHANGED <<result, samples, index, error, running, i2sWaited>>
    /\ UNCHANGED <<i2sErrCount, nextDacId>>
    /\ UNCHANGED <<prodVars, chanVars, histVars>>
    /\ UNCHANGED <<streamingSignals, acquired>>
    /\ UNCHANGED fbVars
    /\ UNCHANGED volVars
    /\ UNCHANGED saiVars

\* The join completed with (result1, result2).
\* if !running { i2s_dac1.start(); i2s_dac2.start(); running = true }
\* error = result1.is_err() || result2.is_err()
I2sWrite(err1, err2) ==
    /\ i2sPc = "join"
    /\ (err1 \/ err2) => i2sErrCount < MaxErrors
    /\ i2sErrCount' = IF err1 \/ err2 THEN i2sErrCount + 1 ELSE i2sErrCount
    /\ IF ~running
         THEN /\ i2s_dac1' = Start(i2s_dac1)
              /\ i2s_dac2' = Start(i2s_dac2)
         ELSE UNCHANGED <<i2s_dac1, i2s_dac2>>
    /\ running' = TRUE
    /\ error' = (err1 \/ err2)
    /\ i2sPc' = "done"
    /\ UNCHANGED <<result, samples, index, i2sWaited, nextDacId>>
    /\ UNCHANGED <<prodVars, chanVars, histVars>>
    /\ UNCHANGED <<streamingSignals, acquired>>
    /\ UNCHANGED fbVars
    /\ UNCHANGED volVars
    /\ UNCHANGED saiVars

I2sWriteAny == \E err1, err2 \in BOOLEAN : I2sWrite(err1, err2)

\* pop_done(): front advances, the channel is no longer full.
ReceiveDone ==
    /\ front' = Increment(front)
    /\ full' = FALSE
    /\ released' = released + 1

\* Variant of I2sReceiveDone: the block is released only when the write
\* succeeded.
I2sReceiveDoneUnlessError ==
    /\ i2sPc = "done"
    /\ IF error
         THEN UNCHANGED <<front, full, released, slotWrites, slotReads>>
         ELSE /\ ReceiveDone
              /\ slotWrites' = [slotWrites EXCEPT ![front] = 0]
              /\ slotReads' = [slotReads EXCEPT ![front] = 0]
    /\ samples' = NoSlot
    /\ i2sPc' = "check"
    /\ UNCHANGED <<result, index, error, running, i2sWaited>>
    /\ UNCHANGED <<slots, back, published, received>>
    /\ UNCHANGED <<prodVars, dacVars>>
    /\ UNCHANGED <<streamingSignals, acquired>>
    /\ UNCHANGED fbVars
    /\ UNCHANGED volVars
    /\ UNCHANGED saiVars

\* usb_audio_receiver.receive_done();  (the loan `samples` ends here)
I2sReceiveDone ==
    /\ i2sPc = "done"
    /\ ReceiveDone
    /\ slotWrites' = [slotWrites EXCEPT ![front] = 0]
    /\ slotReads' = [slotReads EXCEPT ![front] = 0]
    /\ samples' = NoSlot
    /\ i2sPc' = "check"
    /\ UNCHANGED <<result, index, error, running, i2sWaited>>
    /\ UNCHANGED <<slots, back, published, received>>
    /\ UNCHANGED <<prodVars, dacVars>>
    /\ UNCHANGED <<streamingSignals, acquired>>
    /\ UNCHANGED fbVars
    /\ UNCHANGED volVars
    /\ UNCHANGED saiVars

\* if error && running { ... }
I2sCheck ==
    /\ i2sPc = "check"
    /\ i2sPc' = IF error /\ running THEN "stop" ELSE "receive"
    /\ UNCHANGED <<result, samples, index, error, running, i2sWaited>>
    /\ UNCHANGED <<prodVars, chanVars, dacVars, histVars>>
    /\ UNCHANGED <<streamingSignals, acquired>>
    /\ UNCHANGED fbVars
    /\ UNCHANGED volVars
    /\ UNCHANGED saiVars

\* i2s_dac1.stop().await;
I2sStop ==
    /\ i2sPc = "stop"
    /\ i2s_dac1' = Stop(i2s_dac1)
    /\ i2sPc' = "stop2"
    /\ UNCHANGED <<result, samples, index, error, running, i2sWaited>>
    /\ UNCHANGED <<i2s_dac2, i2sErrCount, nextDacId>>
    /\ UNCHANGED <<prodVars, chanVars, histVars>>
    /\ UNCHANGED <<streamingSignals, acquired>>
    /\ UNCHANGED fbVars
    /\ UNCHANGED volVars
    /\ UNCHANGED saiVars

\* i2s_dac2.stop().await;
I2sStop2 ==
    /\ i2sPc = "stop2"
    /\ i2s_dac2' = Stop(i2s_dac2)
    /\ i2sPc' = "rebuild"
    /\ UNCHANGED <<result, samples, index, error, running, i2sWaited>>
    /\ UNCHANGED <<i2s_dac1, i2sErrCount, nextDacId>>
    /\ UNCHANGED <<prodVars, chanVars, histVars>>
    /\ UNCHANGED <<streamingSignals, acquired>>
    /\ UNCHANGED fbVars
    /\ UNCHANGED volVars
    /\ UNCHANGED saiVars

\* Variant of I2sRebuild: only the first transmitter is dropped and
\* constructed again.
I2sRebuildFirstOnly ==
    /\ i2sPc = "rebuild"
    /\ i2s_dac1' = NewI2s(nextDacId)
    /\ nextDacId' = nextDacId + 2
    /\ running' = FALSE
    /\ i2sPc' = "receive"
    /\ UNCHANGED <<result, samples, index, error, i2sWaited, i2sErrCount>>
    /\ UNCHANGED i2s_dac2
    /\ UNCHANGED <<prodVars, chanVars, histVars>>
    /\ UNCHANGED <<streamingSignals, acquired>>
    /\ UNCHANGED fbVars
    /\ UNCHANGED volVars
    /\ UNCHANGED saiVars

\* drop(i2s_dac1); drop(i2s_dac2); i2s_dac1 = new_i2s(..);
\* i2s_dac2 = new_i2s2(..); running = false;
I2sRebuild ==
    /\ i2sPc = "rebuild"
    /\ i2s_dac1' = NewI2s(nextDacId)
    /\ i2s_dac2' = NewI2s(nextDacId + 1)
    /\ nextDacId' = nextDacId + 2
    /\ running' = FALSE
    /\ i2sPc' = "receive"
    /\ UNCHANGED <<result, samples, index, error, i2sWaited, i2sErrCount>>
    /\ UNCHANGED <<prodVars, chanVars, histVars>>
    /\ UNCHANGED <<streamingSignals, acquired>>
    /\ UNCHANGED fbVars
    /\ UNCHANGED volVars
    /\ UNCHANGED saiVars

I2sTask ==
    \/ I2sTick
    \/ I2sReceiveOk
    \/ I2sReceiveTimeout
    \/ I2sProcess
    \/ I2sWriteCall
    \/ I2sWriteAny
    \/ I2sReceiveDone
    \/ I2sCheck
    \/ I2sStop
    \/ I2sStop2
    \/ I2sRebuild

NextUsb == StreamingTask \/ I2sTask

\* ========================================================== rate feedback
\* Values of the crate's constants a build may be configured with.
TickRates == {3072000, 12288000, 24576000, 42000000}
SampleRates == {44100, 48000, 96000}
\* uac1::FeedbackRefresh as usize: the refresh period is 2^n frames.
RefreshPeriods == {1, 3, 7}

\* const TICKS_PER_SAMPLE: u32 = FEEDBACK_COUNTER_TICK_RATE / SAMPLE_RATE_HZ;
TICKS_PER_SAMPLE == FEEDBACK_COUNTER_TICK_RATE \div SAMPLE_RATE_HZ

\* const FEEDBACK_SHIFT: usize = 16 (usb_high_speed) or 14.
FEEDBACK_SHIFT == IF usb_high_speed THEN 16 ELSE 14

\* const FEEDBACK_FACTOR: u32 =
\*     ((1 << FEEDBACK_SHIFT) / TICKS_PER_SAMPLE) >> (FEEDBACK_REFRESH_PERIOD as usize);
FEEDBACK_FACTOR ==
    ((2 ^ FEEDBACK_SHIFT) \div TICKS_PER_SAMPLE) \div (2 ^ FEEDBACK_REFRESH_PERIOD)

\* const_assert_eq!(TICKS_PER_SAMPLE * SAMPLE_RATE_HZ, FEEDBACK_COUNTER_TICK_RATE);
TicksAssert == TICKS_PER_SAMPLE * SAMPLE_RATE_HZ = FEEDBACK_COUNTER_TICK_RATE

\* Variant of FeedbackAssert: the build does not check the factor.
FeedbackAssertOmitted == TRUE

\* const_assert_eq!((FEEDBACK_FACTOR << (FEEDBACK_REFRESH_PERIOD as usize))
\*                      * TICKS_PER_SAMPLE, (1 << FEEDBACK_SHIFT));
FeedbackAssert ==
    (FEEDBACK_FACTOR * (2 ^ FEEDBACK_REFRESH_PERIOD)) * TICKS_PER_SAMPLE
        = 2 ^ FEEDBACK_SHIFT

\* Tick counts the timer may capture in one refresh period.
FeedbackCounts == {0, 1, 255, 256, 12288, 98304, 98305, 1048576}

\* a * b in u32 (wrapping), for b < 2^15: the product is kept as its two
\* 16-bit halves.
Mul32(a, b) ==
    LET lo == (a % 65536) * b
        hi == (a \div 65536) * b + (lo \div 65536)
    IN  [lo |-> lo % 65536, hi |-> hi % 65536]

\* value as u8, (value >> 8) as u8, (value >> 16) as u8, (value >> 24) as u8
ByteOf(value, n) ==
    CASE n = 0 -> value.lo % 256
      [] n = 1 -> value.lo \div 256
      [] n = 2 -> value.hi % 256
      [] n = 3 -> value.hi \div 256

\* The bytes pushed for one value: four at high speed, three at full speed.
FeedbackBytes(value) ==
    IF usb_high_speed
      THEN <<ByteOf(value, 0), ByteOf(value, 1), ByteOf(value, 2), ByteOf(value, 3)>>
      ELSE <<ByteOf(value, 0), ByteOf(value, 1), ByteOf(value, 2)>>

\* Capacity of `packet`: Vec<u8, 4>.
PacketCapacity == 4

\* The feedback task does not exist in a specification without it.
FeedbackOff ==
    /\ fbPc = "off"
    /\ usb_high_speed = FALSE
    /\ FEEDBACK_COUNTER_TICK_RATE = 0
    /\ SAMPLE_RATE_HZ = 0
    /\ FEEDBACK_REFRESH_PERIOD = 0
    /\ FEEDBACK_SIGNAL = <<>>
    /\ counter = 0
    /\ packet = <<>>
    /\ fbSignalled = 0
    /\ fbTaken = 0
    /\ fbDisconnects = 0
    /\ fbWritten = <<>>

\* A build configuration: the feature and the crate's constants.
InitFeedback ==
    /\ fbPc = "build"
    /\ usb_high_speed \in BOOLEAN
    /\ FEEDBACK_COUNTER_TICK_RATE \in TickRates
    /\ SAMPLE_RATE_HZ \in SampleRates
    /\ FEEDBACK_REFRESH_PERIOD \in RefreshPeriods
    /\ FEEDBACK_SIGNAL = <<>>
    /\ counter = 0
    /\ packet = <<>>
    /\ fbSignalled = 0
    /\ fbTaken = 0
    /\ fbDisconnects = 0
    /\ fbWritten = <<>>

\* The compiler evaluates the two static assertions: the build fails unless
\* both hold.
Build ==
    /\ fbPc = "build"
    /\ fbPc' = IF TicksAssert /\ FeedbackAssert
                 THEN "wait_connection" ELSE "build_failed"
    /\ UNCHANGED <<usb_high_speed, FEEDBACK_COUNTER_TICK_RATE, SAMPLE_RATE_HZ,
                   FEEDBACK_REFRESH_PERIOD, FEEDBACK_SIGNAL, counter, packet,
                   fbSignalled, fbTaken, fbDisconnects, fbWritten>>
    /\ UNCHANGED streamVars
    /\ UNCHANGED volVars
    /\ UNCHANGED saiVars

\* The feedback timer signals the tick count of a refresh period; a value not
\* yet taken is replaced.
SignalTicks(ticks) ==
    /\ fbPc \notin {"off", "build", "build_failed"}
    /\ fbSignalled < MaxTickUpdates
    /\ fbSignalled' = fbSignalled + 1
    /\ FEEDBACK_SIGNAL' = <<ticks>>
    /\ UNCHANGED <<fbPc, usb_high_speed, FEEDBACK_COUNTER_TICK_RATE,
                   SAMPLE_RATE_HZ, FEEDBACK_REFRESH_PERIOD, counter, packet,
                   fbTaken, fbDisconnects, fbWritten>>
    /\ UNCHANGED streamVars
    /\ UNCHANGED volVars
    /\ UNCHANGED saiVars

TimerCapture == \E ticks \in FeedbackCounts : SignalTicks(ticks)

\* feedback.wait_connection().await; then feedback_handler starts with an
\* empty packet.
FeedbackWaitConnection ==
    /\ fbPc = "wait_connection"
    /\ packet' = <<>>
    /\ fbPc' = "wait"
    /\ UNCHANGED <<usb_high_speed, FEEDBACK_COUNTER_TICK_RATE, SAMPLE_RATE_HZ,
                   FEEDBACK_REFRESH_PERIOD, FEEDBACK_SIGNAL, counter,
                   fbSignalled, fbTaken, fbDisconnects, fbWritten>>
    /\ UNCHANGED streamVars
    /\ UNCHANGED volVars
    /\ UNCHANGED saiVars

\* Variant of FeedbackTake: the packet is not cleared before the bytes of the
\* value are pushed.
FeedbackTakeNoClear ==
    /\ fbPc = "wait"
    /\ FEEDBACK_SIGNAL # <<>>
    /\ counter' = Head(FEEDBACK_SIGNAL)
    /\ FEEDBACK_SIGNAL' = <<>>
    /\ fbTaken' = fbTaken + 1
    /\ LET bytes == packet \o FeedbackBytes(Mul32(Head(FEEDBACK_SIGNAL), FEEDBACK_FACTOR))
       IN  IF Len(bytes) > PacketCapacity
             THEN /\ fbPc' = "panicked"
                  /\ UNCHANGED <<packet, fbWritten>>
             ELSE /\ packet' = bytes
                  /\ fbWritten' = Append(fbWritten, bytes)
                  /\ fbPc' = "write"
    /\ UNCHANGED <<usb_high_speed, FEEDBACK_COUNTER_TICK_RATE, SAMPLE_RATE_HZ,
                   FEEDBACK_REFRESH_PERIOD, fbSignalled, fbDisconnects>>
    /\ UNCHANGED streamVars
    /\ UNCHANGED volVars
    /\ UNCHANGED saiVars

\* let counter = FEEDBACK_SIGNAL.wait().await; packet.clear();
\* let value = counter * FEEDBACK_FACTOR; packet.push(..).unwrap() for each
\* byte; feedback.write_packet(&packet)   (up to its .await)
FeedbackTake ==
    /\ fbPc = "wait"
    /\ FEEDBACK_SIGNAL # <<>>
    /\ counter' = Head(FEEDBACK_SIGNAL)
    /\ FEEDBACK_SIGNAL' = <<>>
    /\ fbTaken' = fbTaken + 1
    /\ LET bytes == FeedbackBytes(Mul32(Head(FEEDBACK_SIGNAL), FEEDBACK_FACTOR))
       IN  IF Len(bytes) > PacketCapacity
             THEN \* push() returned Err: unwrap() panics
                  /\ fbPc' = "panicked"
                  /\ UNCHANGED <<packet, fbWritten>>
             ELSE /\ packet' = bytes
                  /\ fbWritten' = Append(fbWritten, bytes)
                  /\ fbPc' = "write"
    /\ UNCHANGED <<usb_high_speed, FEEDBACK_COUNTER_TICK_RATE, SAMPLE_RATE_HZ,
                   FEEDBACK_REFRESH_PERIOD, fbSignalled, fbDisconnects>>
    /\ UNCHANGED streamVars
    /\ UNCHANGED volVars
    /\ UNCHANGED saiVars

\* write_packet() returned Ok(()): next iteration of the handler's loop.
FeedbackWriteOk ==
    /\ fbPc = "write"
    /\ fbPc' = "wait"
    /\ UNCHANGED <<usb_high_speed, FEEDBACK_COUNTER_TICK_RATE, SAMPLE_RATE_HZ,
                   FEEDBACK_REFRESH_PERIOD, FEEDBACK_SIGNAL, counter, packet,
                   fbSignalled, fbTaken, fbDisconnects, fbWritten>>
    /\ UNCHANGED streamVars
    /\ UNCHANGED volVars
    /\ UNCHANGED saiVars

\* write_packet() returned Err(EndpointError::Disabled): `?` leaves
\* feedback_handler, feedback_task waits for the next connection.
FeedbackWriteDisabled ==
    /\ fbPc = "write"
    /\ fbDisconnects < MaxDisconnects
    /\ fbDisconnects' = fbDisconnects + 1
    /\ fbPc' = "wait_connection"
    /\ UNCHANGED <<usb_high_speed, FEEDBACK_COUNTER_TICK_RATE, SAMPLE_RATE_HZ,
                   FEEDBACK_REFRESH_PERIOD, FEEDBACK_SIGNAL, counter, packet,
                   fbSignalled, fbTaken, fbWritten>>
    /\ UNCHANGED streamVars
    /\ UNCHANGED volVars
    /\ UNCHANGED saiVars

\* write_packet() returned Err(EndpointError::BufferOverflow): panic.
FeedbackWriteOverflow ==
    /\ fbPc = "write"
    /\ fbPc' = "buffer_overflow_panic"
    /\ UNCHANGED <<usb_high_speed, FEEDBACK_COUNTER_TICK_RATE, SAMPLE_RATE_HZ,
                   FEEDBACK_REFRESH_PERIOD, FEEDBACK_SIGNAL, counter, packet,
                   fbSignalled, fbTaken, fbDisconnects, fbWritten>>
    /\ UNCHANGED streamVars
    /\ UNCHANGED volVars
    /\ UNCHANGED saiVars

FeedbackTask ==
    \/ FeedbackWaitConnection
    \/ FeedbackTake
    \/ FeedbackWriteOk
    \/ FeedbackWriteDisabled
    \/ FeedbackWriteOverflow

NextFeedback == Build \/ TimerCapture \/ FeedbackTask

\* ---- the control surfaces: producers of the gain signals ----
\* Gains the USB volume control may publish for the SAI task, and the
\* potentiometer's; volumes published for the dual-I2S task.
UsbGains == { <<1, 2>>, <<2, 1>> }
PotGains == {1, 2}
Volumes == { <<1, 2>>, <<2, 2>> }

\* USB_GAIN_SIGNAL.signal(gain): a value not yet taken is replaced.
SignalUsbGain(gain) ==
    /\ board = "blus_mini_mk2"
    /\ USB_GAIN_SIGNAL' = <<gain>>
    /\ UNCHANGED <<pc, source, last_source, sample_block, queue,
                   led_status, led_usb, led_rpi, led_spdif, sai_amp, sai_rpi,
                   SAI_ACTIVE_SIGNAL, AMP_SETUP_SIGNAL, saiWaited,
                   steps, changed, retired, processed, written, droppedBlocks,
                   ledsSet, nextBlockId, nextDriverId, errCount>>
    /\ UNCHANGED <<usb_gain, pot_gain, POT_GAIN_SIGNAL, filters,
                   processed_samples, unshifted, gain_left, gain_right, board,
                   discarded>>
    /\ UNCHANGED usbVars

UsbGainControl == \E gain \in UsbGains : SignalUsbGain(gain)

\* POT_GAIN_SIGNAL.signal(gain)
SignalPotGain(gain) ==
    /\ board = "blus_mini_mk2"
    /\ POT_GAIN_SIGNAL' = <<gain>>
    /\ UNCHANGED <<pc, source, last_source, sample_block, queue,
                   led_status, led_usb, led_rpi, led_spdif, sai_amp, sai_rpi,
                   SAI_ACTIVE_SIGNAL, AMP_SETUP_SIGNAL, saiWaited,
                   steps, changed, retired, processed, written, droppedBlocks,
                   ledsSet, nextBlockId, nextDriverId, errCount>>
    /\ UNCHANGED <<usb_gain, pot_gain, USB_GAIN_SIGNAL, filters,
                   processed_samples, unshifted, gain_left, gain_right, board,
                   discarded>>
    /\ UNCHANGED usbVars

PotGainControl == \E gain \in PotGains : SignalPotGain(gain)

\* VOLUME_SIGNAL.signal(volume)
SignalVolume(new_volume) ==
    /\ board = "firmware"
    /\ VOLUME_SIGNAL' = <<new_volume>>
    /\ UNCHANGED <<volume, processed_samples_left, processed_samples_right>>
    /\ UNCHANGED streamVars
    /\ UNCHANGED fbVars
    /\ UNCHANGED saiVars

VolumeControl == \E new_volume \in Volumes : SignalVolume(new_volume)

\* The producers and timers of each board.
ProduceOnBoard == board = "blus_mini_mk2" /\ Produce
SaiTickOnBoard == board = "blus_mini_mk2" /\ SaiTick
ConnectOnBoard == board = "firmware" /\ WaitConnection
I2sTickOnBoard == board = "firmware" /\ I2sTick
\* The host streams whole stereo frames.
ReadFrames ==
    \E data \in { d \in Packets : Len(d) = INPUT_CHANNEL_COUNT * SAMPLE_SIZE } :
        ReadPacket(data)

\* ========================================================= specifications
Init == InitSai /\ InitUsb /\ FeedbackOff /\ board = "all"

\* The SAI task's board with every indicator low at construction.
InitIndicatorsLow ==
    Init /\ ~led_status /\ ~led_usb /\ ~led_rpi /\ ~led_spdif

\* The SAI routing task with its producers and hardware.
SpecSai == Init /\ [][NextSai]_vars

\* The SAI routing task under a scheduler that runs it whenever it is ready,
\* with a dependent subsystem that acknowledges every notification.
SpecHandshake ==
    Init /\ [][NextSai]_vars /\ WF_vars(SaiTask) /\ WF_vars(AmpSubsystem)

\* The USB ingestion with the dual-I2S routing task.
SpecUsb == InitIndicatorsLow /\ [][NextUsb]_vars

\* Both routing tasks waiting for their next block: the USB ingestion with the
\* dual-I2S task, and the SAI task while its producers are silent.
NextWaiting == StreamingTask \/ I2sTask \/ SaiTick
SpecWaiting == InitIndicatorsLow /\ [][NextWaiting]_vars

\* One matched block handled by the SAI task, for every block content and
\* every gain: the task has latched the block's source and finished the
\* source change.
AllBlocks ==
    UNION { [1..n -> SampleWords] : n \in 0..MAX_SAMPLE_COUNT }

InitProcess ==
    /\ pc = "match"
    /\ \E tag \in BlockTag, block \in AllBlocks :
         /\ source = tag
         /\ last_source = tag
         /\ sample_block = [tag |-> tag, id |-> 1, samples |-> block]
         /\ sai_amp = NewSaiAmp(3, tag)
         /\ sai_rpi = [NewSaiRpi(4, tag) EXCEPT !.started = TRUE]
         /\ led_usb = (tag = "Usb")
         /\ led_spdif = (tag = "Spdif")
    /\ queue = <<>>
    /\ led_status = FALSE
    /\ led_rpi = FALSE
    /\ SAI_ACTIVE_SIGNAL = Empty
    /\ AMP_SETUP_SIGNAL = FALSE
    /\ saiWaited = 0
    /\ steps = <<"leds", "drop", "new", "signal", "wait", "clear", "start">>
    /\ changed = TRUE
    /\ retired = {1, 2}
    /\ processed = {}
    /\ written = {}
    /\ droppedBlocks = {}
    /\ discarded = {}
    /\ ledsSet = TRUE
    /\ nextBlockId = 2
    /\ nextDriverId = 5
    /\ errCount = 0
    /\ usb_gain \in GainLevels \X GainLevels
    /\ \E gain \in GainLevels : pot_gain = <<gain, gain>>
    /\ USB_GAIN_SIGNAL = <<>>
    /\ POT_GAIN_SIGNAL = <<>>
    /\ filters = [k \in 0..(OUTPUT_CHANNEL_COUNT - 1) |-> <<>>]
    /\ processed_samples = <<>>
    /\ unshifted = <<>>
    /\ gain_left = 0
    /\ gain_right = 0
    /\ board = "blus_mini_mk2"
    /\ InitUsb
    /\ FeedbackOff

NextProcess == MatchBlock \/ WriteOk
SpecProcess == InitProcess /\ [][NextProcess]_vars

\* Gain handling on each of the two boards: the SAI task of blus_mini_mk2
\* with its two gain signals, and the dual-I2S task of firmware with the
\* volume signal while the host streams whole frames.
InitGain ==
    /\ InitSai /\ ~led_status /\ ~led_usb /\ ~led_rpi /\ ~led_spdif
    /\ InitUsb
    /\ FeedbackOff
    /\ board \in {"blus_mini_mk2", "firmware"}

NextGain ==
    \/ ProduceOnBoard
    \/ HardwareWriteError
    \/ AmpSubsystem
    \/ SaiTickOnBoard
    \/ SaiTask
    \/ UsbGainControl
    \/ PotGainControl
    \/ ConnectOnBoard
    \/ ReadFrames
    \/ AcquireSlot
    \/ FillSlot
    \/ I2sTickOnBoard
    \/ I2sReceiveOk
    \/ I2sReceiveTimeout
    \/ I2sProcess
    \/ I2sWriteCall
    \/ I2sWriteAny
    \/ I2sReceiveDone
    \/ I2sCheck
    \/ I2sStop
    \/ I2sStop2
    \/ I2sRebuild
    \/ VolumeControl

SpecGain == InitGain /\ [][NextGain]_vars

\* The build of the feedback constants and the feedback task of the firmware
\* built, for every configuration.
InitBuild ==
    /\ InitSai /\ ~led_status /\ ~led_usb /\ ~led_rpi /\ ~led_spdif
    /\ InitUsb
    /\ InitFeedback
    /\ board = "firmware"
SpecFeedback == InitBuild /\ [][NextFeedback]_vars

\* ================================================================== claims
\* C1: a block whose tag differs from the resolved source is dropped: it is
\* neither handed to process() nor to sai_amp.write(), the task goes back to
\* the select, and the resolved source stays as it is.
C1_MismatchedBlockDropped ==
    /\ [](droppedBlocks \cap (processed \cup written) = {})
    /\ [][(/\ pc = "match"
           /\ pc' # "match"
           /\ sample_block # NoBlock
           /\ sample_block.tag # source)
          => (/\ processed' = processed
              /\ written' = written
              /\ source' = source
              /\ sample_block.id \in droppedBlocks'
              /\ pc' = "select")]_vars

\* A block was dropped while a concrete source stays resolved.
C1_Witness == droppedBlocks # {} /\ source \in BlockTag /\ pc = "select"

\* C2: once a source change has been handled, both drivers are instances built
\* after the change was found, configured for the new source; a write only
\* ever goes to such an instance.
C2_DriversReconstructed ==
    pc \notin {"check", "leds", "drop", "new"} =>
        /\ sai_amp # NoDriver /\ sai_rpi # NoDriver
        /\ sai_amp.id \notin retired
        /\ sai_rpi.id \notin retired
        /\ sai_amp.source = source
        /\ sai_rpi.source = source

\* A block is being written after two source changes.
C2_Witness ==
    pc = "write" /\ Cardinality(retired) >= 4 /\ sai_amp.source = "Spdif"

\* C3: with the single slot of the hand-off queue, the producer holds a slot
\* (its send() has completed) only when every block it published has been
\* released by receive_done(), and the slot it holds is neither in flight nor
\* lent to the consumer.
C3_Backpressure ==
    shPc = "fill" =>
        /\ published = released
        /\ back \notin InFlight
        /\ samples # back

\* The producer's second send() has completed, after the first release.
C3_Witness == shPc = "fill" /\ published = 1 /\ released = 1

\* C4: reading a packet whose length is no multiple of SAMPLE_SIZE changes
\* neither the channel nor any slot, publishes nothing, and leaves the
\* handler at its read_packet() with the streaming signal as it was.
C4_MalformedPacketDropped ==
    [][(/\ packetsRead' = packetsRead + 1
        /\ Len(usb_data') % SAMPLE_SIZE # 0)
       => (/\ UNCHANGED chanVars
           /\ UNCHANGED histVars
           /\ shPc' = "read"
           /\ USB_STREAMING_SIGNAL' = USB_STREAMING_SIGNAL)]_vars

\* A malformed packet was read and the handler is reading again.
C4_Witness ==
    shPc = "read" /\ Len(usb_data) % SAMPLE_SIZE # 0 /\ published = 1

\* C5, as claimed: a write error, seen by the select or returned by write(),
\* forces the source to None and takes the task to the source-change check.
C5_WriteErrorForcesIdle ==
    [][(\/ pc = "select" /\ pc' = "check" /\ sample_block' = NoBlock
        \/ pc = "write" /\ pc' # "write" /\ sai_amp'.error)
       => (source' = "None" /\ pc' = "check")]_vars

\* C6, as claimed: neither routing task stays blocked in its wait for the
\* next block for longer than the one-millisecond deadline.
C6_BothTasksHaveDeadline ==
    /\ i2sWaited <= RECEIVE_TIMEOUT_MS
    /\ saiWaited <= RECEIVE_TIMEOUT_MS

\* C6, amended: the dual-I2S task never waits longer than the deadline, and an
\* expired deadline is handled as a failed write is: `error` is set, and when
\* the task is back at its receive() the transmitters are idle, freshly
\* built, and running is false.
C6_I2sDeadline ==
    /\ i2sWaited <= RECEIVE_TIMEOUT_MS
    /\ (result = "Timeout" /\ i2sPc \in {"check", "stop", "stop2", "rebuild"})
         => error
    /\ (i2sPc = "receive" /\ result \in {"Timeout", "Ok"} /\ error) =>
          /\ ~running
          /\ i2s_dac1.phase = "idle"
          /\ i2s_dac2.phase = "idle"
    /\ i2sPc \in {"stop", "stop2", "rebuild"} => error /\ running

\* A deadline expired while the transmitters ran: they are being rebuilt.
C6_Witness == result = "Timeout" /\ i2sPc = "rebuild" /\ i2sWaited = 0

\* C7: a source change runs its steps in the order indicators, drop,
\* reconstruct, signal, wait, clear, start, and only then is the block
\* processed and written; every change of the source is found by the check.
TransitionOrder == <<"leds", "drop", "new", "signal", "wait", "clear", "start">>

TransitionProgress ==
    CASE pc = "leds" -> 0
      [] pc = "drop" -> 1
      [] pc = "new" -> 2
      [] pc = "signal" -> 3
      [] pc = "wait" -> 4
      [] pc = "clear" -> 5
      [] pc = "start" -> 6
      [] OTHER -> 7

C7_TransitionOrder ==
    /\ pc # "check" => last_source = source
    /\ pc \in {"leds", "drop", "new", "signal", "wait", "clear", "start"}
          => changed
    /\ changed =>
          /\ Len(steps) >= TransitionProgress
          /\ SubSeq(steps, 1, TransitionProgress)
                = SubSeq(TransitionOrder, 1, TransitionProgress)
          /\ pc \in {"leds", "drop", "new", "signal", "wait", "clear", "start"}
                => Len(steps) = TransitionProgress
          /\ SubSeq(steps, 8, Len(steps))
                \in {<<>>, <<"process">>, <<"process", "write">>,
                     <<"process", "write_err">>}
    /\ (~changed /\ pc # "check") =>
          steps \in {<<>>, <<"process">>, <<"process", "write">>,
                     <<"process", "write_err">>}

\* The block that latched the source is written after the whole sequence.
C7_Witness ==
    changed /\ pc = "select" /\ steps = TransitionOrder \o <<"process", "write">>

\* C8, as claimed: after a source change exactly one of the four indicators
\* is on: led_status for None, else the indicator of the source.
C8_ExactlyOneOfFour ==
    (ledsSet /\ pc # "leds") =>
        /\ led_status = (last_source = "None")
        /\ led_usb = (last_source = "Usb")
        /\ led_rpi = (last_source = "RaspberryPi")
        /\ led_spdif = (last_source = "Spdif")

\* C8, amended: after a source change the three source indicators show the
\* source (all three off for None, else only the source's one on), and the
\* task never changes led_status.
C8_SourceIndicators ==
    /\ []((ledsSet /\ pc # "leds") =>
            /\ led_usb = (last_source = "Usb")
            /\ led_rpi = (last_source = "RaspberryPi")
            /\ led_spdif = (last_source = "Spdif"))
    /\ [][led_status' = led_status]_vars

\* Back to None after a concrete source: the three source indicators are off.
C8_Witness ==
    /\ ledsSet /\ pc = "select" /\ last_source = "None"
    /\ ~led_usb /\ ~led_rpi /\ ~led_spdif

\* C9, as claimed: every block in flight holds a whole number of frames and
\* at most the block capacity.
C9_WholeFrames ==
    \A i \in InFlight :
        /\ Len(slots[i]) % INPUT_CHANNEL_COUNT = 0
        /\ Len(slots[i]) <= USB_MAX_SAMPLE_COUNT

\* C9, amended: a published block holds data_size / SAMPLE_SIZE samples, at
\* most the block capacity; it holds whole frames exactly when the packet
\* size is a multiple of INPUT_CHANNEL_COUNT * SAMPLE_SIZE.
C9_BlockLength ==
    [][published' = published + 1 =>
        /\ Len(slots'[back]) = Len(usb_data) \div SAMPLE_SIZE
        /\ Len(slots'[back]) <= USB_MAX_SAMPLE_COUNT
        /\ (Len(slots'[back]) % INPUT_CHANNEL_COUNT = 0
              <=> Len(usb_data) % (INPUT_CHANNEL_COUNT * SAMPLE_SIZE) = 0)]_vars

\* A block of one sample (half a frame) is in flight.
C9_Witness == \E i \in InFlight : Len(slots[i]) = 1

\* C10: between two releases a slot is filled once and lent once; a block is
\* lent only when published, read only while lent, released once for every
\* successful receive (also after a failed write) and never after a timeout.
C10_BlockLifecycle ==
    /\ \A i \in SlotIndex :
          /\ slotWrites[i] <= 1
          /\ slotReads[i] <= slotWrites[i]
    /\ released <= received /\ received <= published
    /\ samples # NoSlot <=> received = released + 1
    /\ samples = NoSlot <=> received = released
    /\ samples # NoSlot => samples \in InFlight /\ slotWrites[samples] = 1
    /\ i2sPc \in {"process", "write", "join", "done"} <=> samples # NoSlot
    /\ i2sPc \in {"process", "write", "join", "done"} => result = "Ok"
    /\ result = "Timeout" => samples = NoSlot

\* A block was released although its write failed.
C10_Witness ==
    i2sPc = "check" /\ result = "Ok" /\ error /\ released = 2

\* The calls made on a transmitter since it was constructed follow the driver
\* contract: clear, write_immediate, start, then write any number of times,
\* then at most one final stop.
LegalCalls(dac) ==
    \A k \in 1..Len(dac.calls) :
        IF k = 1 THEN dac.calls[k] = "clear"
        ELSE IF k = 2 THEN dac.calls[k] = "write_immediate"
        ELSE IF k = 3 THEN dac.calls[k] = "start"
        ELSE IF k = Len(dac.calls) THEN dac.calls[k] \in {"write", "stop"}
        ELSE dac.calls[k] = "write"

\* write_immediate() and then start() were called since construction.
Armed(dac) ==
    \E i, j \in 1..Len(dac.calls) :
        i < j /\ dac.calls[i] = "write_immediate" /\ dac.calls[j] = "start"

C12_EveryErrorRebuilds ==
    [][(i2sPc = "check" /\ i2sPc' # "check" /\ error) => i2sPc' = "stop"]_vars

\* C12: after a failed write or write_immediate on either transmitter, or a
\* receive timeout while the transmitters are running, both transmitters are
\* stopped, dropped and reconstructed before the next block is written, and
\* never only one of them; a receive timeout while the transmitters are idle
\* leaves them untouched, as they were constructed.
C12_ErrorRebuildsBoth ==
    /\ [][(i2sPc = "check" /\ i2sPc' # "check" /\ error /\ running)
            => i2sPc' = "stop"]_vars
    /\ [][(i2sPc = "check" /\ i2sPc' # "check" /\ error /\ ~running)
            => /\ i2sPc' = "receive"
               /\ UNCHANGED <<i2s_dac1, i2s_dac2>>
               /\ i2s_dac1.calls = <<>> /\ i2s_dac2.calls = <<>>]_vars
    /\ [][(i2sPc = "join" /\ i2sPc' = "done") =>
            (error' <=> i2sErrCount' # i2sErrCount) /\ (error' => running')]_vars
    /\ []((i2sPc = "write" /\ error) =>
            /\ ~running
            /\ i2s_dac1.calls = <<>> /\ i2s_dac1.phase = "idle"
            /\ i2s_dac2.calls = <<>> /\ i2s_dac2.phase = "idle")
    /\ [][(i2s_dac1'.id # i2s_dac1.id) <=> (i2s_dac2'.id # i2s_dac2.id)]_vars
    /\ [][i2s_dac1'.id # i2s_dac1.id =>
            /\ i2s_dac1.phase = "stopped" /\ i2s_dac2.phase = "stopped"
            /\ i2s_dac1'.id \notin {i2s_dac1.id, i2s_dac2.id}
            /\ i2s_dac2'.id \notin {i2s_dac1.id, i2s_dac2.id}]_vars

\* Reached: a block is about to be written after a failed write, on
\* transmitters constructed again.
C12_Witness ==
    /\ i2sPc = "write" /\ error /\ i2sErrCount > 0
    /\ i2s_dac1.id > 1 /\ i2s_dac2.id > 2

\* C13: a block received while the source is None latches the source to the
\* block's tag; a block received while the source is concrete never changes
\* the source, whatever its tag; and the source becomes concrete in no other
\* way.
C13_SourceLatch ==
    /\ [][(pc = "select" /\ pc' = "check" /\ sample_block' # NoBlock) =>
            source' = IF source = "None" THEN sample_block'.tag ELSE source]_vars
    /\ [][(source' # source /\ source' # "None") =>
            /\ source = "None"
            /\ pc = "select" /\ pc' = "check"
            /\ sample_block'.tag = source']_vars

\* Reached: a Usb block was received while the source was latched to Spdif,
\* and the source is still Spdif.
C13_Witness ==
    /\ pc = "check" /\ sample_block.tag = "Usb" /\ source = "Spdif"
    /\ last_source = "Spdif"

\* C14: streaming_task is a reconnect loop: it signals true on a connection,
\* reads packets until the endpoint reports Disabled, then signals false and
\* waits for the next connection, so the signalled values alternate true,
\* false, true, ...; a disconnect leaves the task waiting, not ended; a
\* buffer overflow reported by the endpoint ends the task with a panic and
\* is not a reconnect: nothing is signalled and no disconnect is counted.
C14_ReconnectLoop ==
    /\ [](\A k \in 1..Len(streamingSignals) :
            streamingSignals[k] = (k % 2 = 1))
    /\ [](shPc \in {"read", "send", "fill"} =>
            /\ Len(streamingSignals) = 2 * disconnects + 1
            /\ USB_STREAMING_SIGNAL = TRUE)
    /\ [](shPc = "wait_connection" =>
            /\ Len(streamingSignals) = 2 * disconnects
            /\ IF streamingSignals = <<>>
                 THEN USB_STREAMING_SIGNAL = Empty
                 ELSE USB_STREAMING_SIGNAL = FALSE)
    /\ [][disconnects' # disconnects =>
            /\ shPc = "read" /\ shPc' = "wait_connection"
            /\ streamingSignals' = Append(streamingSignals, FALSE)]_vars
    /\ [][(shPc = "wait_connection" /\ shPc' # shPc) =>
            /\ shPc' = "read"
            /\ streamingSignals' = Append(streamingSignals, TRUE)]_vars
    /\ [][(shPc # "buffer_overflow_panic" /\ shPc' = "buffer_overflow_panic") =>
            /\ shPc = "read"
            /\ UNCHANGED <<streamingSignals, USB_STREAMING_SIGNAL, disconnects>>]_vars
    /\ [][shPc = "buffer_overflow_panic" => shPc' = shPc]_vars

\* Reached: after a disconnect and a second connection the endpoint reported
\* a buffer overflow.
C14_Witness ==
    /\ shPc = "buffer_overflow_panic"
    /\ streamingSignals = <<TRUE, FALSE, TRUE>>
    /\ disconnects = 1

\* C15: in every firmware that builds, whichever the link speed it is built
\* for, (FEEDBACK_FACTOR << FEEDBACK_REFRESH_PERIOD) * TICKS_PER_SAMPLE is
\* exactly 1 << FEEDBACK_SHIFT, with FEEDBACK_SHIFT 16 at high speed and 14 at
\* full speed, and TICKS_PER_SAMPLE * SAMPLE_RATE_HZ is exactly
\* FEEDBACK_COUNTER_TICK_RATE.
C15_FeedbackIdentity ==
    fbPc \notin {"off", "build", "build_failed"} =>
        /\ usb_high_speed =>
              (FEEDBACK_FACTOR * 2 ^ FEEDBACK_REFRESH_PERIOD) * TICKS_PER_SAMPLE
                  = 65536
        /\ ~usb_high_speed =>
              (FEEDBACK_FACTOR * 2 ^ FEEDBACK_REFRESH_PERIOD) * TICKS_PER_SAMPLE
                  = 16384
        /\ TICKS_PER_SAMPLE * SAMPLE_RATE_HZ = FEEDBACK_COUNTER_TICK_RATE

\* Reached: a full-speed firmware built with 256 ticks per sample and a
\* refresh period of 8 frames, its factor being 8.
C15_Witness ==
    /\ fbPc = "wait"
    /\ ~usb_high_speed
    /\ TICKS_PER_SAMPLE = 256 /\ FEEDBACK_REFRESH_PERIOD = 3
    /\ FEEDBACK_FACTOR = 8

\* The packet p carries the low bytes of ticks * FEEDBACK_FACTOR, least
\* significant first: four at high speed, three at full speed.
IsFeedbackPacket(p, ticks) ==
    LET value == ticks * FEEDBACK_FACTOR
    IN  /\ Len(p) = IF usb_high_speed THEN 4 ELSE 3
        /\ \A i \in 1..Len(p) : p[i] \in 0..255
        /\ p[1] + 256 * p[2] = value % 65536
        /\ p[3] = (value \div 65536) % 256
        /\ usb_high_speed => p[4] = (value \div 16777216) % 256

\* C18: for every tick count taken from FEEDBACK_SIGNAL the handler passes
\* exactly one packet to write_packet(): the low bytes of
\* counter * FEEDBACK_FACTOR, least significant first, four at high speed and
\* three at full speed, with no byte of an earlier value left in it.
C18_FeedbackPacket ==
    /\ [](Len(fbWritten) = fbTaken)
    /\ [](fbPc # "panicked")
    /\ [](fbPc = "write" =>
            /\ packet = fbWritten[Len(fbWritten)]
            /\ IsFeedbackPacket(packet, counter))
    /\ [][fbTaken' # fbTaken =>
            /\ fbTaken' = fbTaken + 1
            /\ FEEDBACK_SIGNAL = <<counter'>>
            /\ fbPc' = "write"
            /\ fbWritten' = Append(fbWritten, packet')]_vars
    /\ [][fbWritten' # fbWritten => fbTaken' # fbTaken]_vars

\* Reached: a high-speed firmware wrote two different packets, the second
\* with a fourth byte that is not zero.
C18_Witness ==
    /\ usb_high_speed
    /\ fbPc = "wait"
    /\ Len(fbWritten) = 2
    /\ fbWritten[1] # fbWritten[2]
    /\ fbWritten[2][4] > 0
    /\ fbWritten[1][1] > 0

\* The word of the value x scaled by the gain level: x itself at 1.0, zero at
\* 0.0, and the half of x rounded towards zero at 0.5.
IsScaled(word, x, gain) ==
    LET v == SampleToF32(word)
    IN  /\ word.hi \in 0..65535 /\ word.lo \in 0..65535
        /\ gain = 2 => v = x
        /\ gain = 0 => v = 0
        /\ gain = 1 => /\ (x >= 0 => v >= 0 /\ x - (v + v) \in {0, 1})
                       /\ (x < 0 => v <= 0 /\ (v + v) - x \in {0, 1})

\* The inputs at the even (parity 0) or odd (parity 1) indices of a block, in
\* order, as the values sample_to_f32 gives.
RECURSIVE InputsOf(_, _, _)
InputsOf(block, parity, from) ==
    IF from >= Len(block) THEN <<>>
    ELSE IF from % 2 = parity
      THEN <<SampleToF32(block[from + 1])>> \o InputsOf(block, parity, from + 1)
      ELSE InputsOf(block, parity, from + 1)

\* C17: process() of n input samples (n at most MAX_SAMPLE_COUNT) pushes
\* exactly 2n outputs, within the capacity 2 * MAX_SAMPLE_COUNT; the sample at
\* an even index i goes through filters 0 and 1 with the left gain into the
\* outputs 2i and 2i + 1, the sample at an odd index through filters 2 and 3
\* with the right gain: a frame [L, R] yields [L, L, R, R].
C17_FanOut ==
    /\ pc # "panicked"
    /\ pc = "write" =>
         LET block == sample_block.samples
             n == Len(block)
         IN  /\ n <= MAX_SAMPLE_COUNT
             /\ Len(unshifted) = 2 * n
             /\ Len(processed_samples) = 2 * n
             /\ \A i \in 0..(n - 1) :
                  LET gain == IF i % 2 = 0 THEN gain_left ELSE gain_right
                      x == SampleToF32(block[i + 1])
                  IN  /\ IsScaled(unshifted[2 * i + 1], x, gain)
                      /\ IsScaled(unshifted[2 * i + 2], x, gain)
             /\ filters[0] = InputsOf(block, 0, 0)
             /\ filters[1] = InputsOf(block, 0, 0)
             /\ filters[2] = InputsOf(block, 1, 0)
             /\ filters[3] = InputsOf(block, 1, 0)

\* Reached: a Usb block of three samples was processed with the left gain
\* 1.0 and the right gain 0.5, the right sample being negative full scale.
C17_Witness ==
    /\ pc = "write"
    /\ sample_block.tag = "Usb"
    /\ Len(sample_block.samples) = 3
    /\ sample_block.samples[2] = [hi |-> 32768, lo |-> 1]
    /\ sample_block.samples[3] = [hi |-> 1, lo |-> 2]
    /\ gain_left = 2 /\ gain_right = 1
    /\ Len(unshifted) = 6

\* C16: for a Spdif block every word handed to sai_amp.write() is the word
\* process() produced shifted right by 16; for a Usb block the words are
\* handed over as process() produced them.
C16_SpdifNarrowed ==
    pc = "write" =>
        /\ Len(processed_samples) = Len(unshifted)
        /\ sample_block.tag = "Spdif" =>
              \A k \in 1..Len(unshifted) :
                  /\ processed_samples[k].hi = 0
                  /\ processed_samples[k].lo = unshifted[k].hi
                  /\ unshifted[k].hi \in 0..65535
        /\ sample_block.tag = "Usb" => processed_samples = unshifted

\* Reached: a Spdif block with a negative sample is about to be written at
\* gain 1.0, its word narrowed to a value of 32768 or more.
C16_Witness ==
    /\ pc = "write"
    /\ sample_block.tag = "Spdif"
    /\ gain_left = 2
    /\ Len(processed_samples) >= 2
    /\ processed_samples[1].lo >= 32768
    /\ unshifted[1].hi >= 32768

\* C19: for every packet whose length is a multiple of SAMPLE_SIZE the
\* stream handler acquires one slot and publishes exactly one block of
\* data_size / SAMPLE_SIZE samples, sample w being the little-endian 32-bit
\* word at byte offset w * SAMPLE_SIZE, in packet order, with nothing of the
\* slot's previous content left; send_done() is called exactly once per
\* acquired slot.
C19_PacketDecoded ==
    /\ [][(packetsRead' # packetsRead /\ Len(usb_data') % SAMPLE_SIZE = 0)
            => shPc' = "send"]_vars
    /\ [][(shPc = "send" /\ shPc' # "send")
            => shPc' = "fill" /\ acquired' = acquired + 1]_vars
    /\ [][acquired' # acquired => shPc = "send"]_vars
    /\ [][(shPc = "fill" /\ shPc' # "fill") =>
            /\ shPc' = "read"
            /\ published' = published + 1
            /\ Len(slots'[back]) * SAMPLE_SIZE = Len(usb_data)
            /\ \A w \in 0..(Len(slots'[back]) - 1) :
                 LET word == slots'[back][w + 1]
                 IN  /\ word.lo % 256 = usb_data[w * SAMPLE_SIZE + 1]
                     /\ word.lo \div 256 = usb_data[w * SAMPLE_SIZE + 2]
                     /\ word.hi % 256 = usb_data[w * SAMPLE_SIZE + 3]
                     /\ word.hi \div 256 = usb_data[w * SAMPLE_SIZE + 4]]_vars
    /\ [][published' # published => shPc = "fill"]_vars
    /\ [](acquired = IF shPc = "fill" THEN published + 1 ELSE published)

\* Reached: a slot that held one sample was acquired again and published with
\* the two samples of an eight-byte packet of high bytes.
C19_Witness ==
    /\ shPc = "read"
    /\ acquired = 2 /\ published = 2
    /\ Len(usb_data) = 8
    /\ usb_data[1] = 255
    /\ \E i \in SlotIndex :
         /\ Len(slots[i]) = 2
         /\ slots[i][2] = [lo |-> 251 + 256 * 250, hi |-> 249 + 256 * 248]

\* ---- C20 ----
\* A step of the SAI task that handles a block of the selected source.
HandlesUsb == pc = "match" /\ pc' # "match" /\ sample_block.tag = "Usb" /\ source = "Usb"
HandlesSpdif == pc = "match" /\ pc' # "match" /\ sample_block.tag = "Spdif" /\ source = "Spdif"

\* The SAI task's two snapshots: each changes only by taking its own pending
\* value while a block of its own source is handled, is applied to that
\* block, and its signal is emptied by no other step of the task.
SaiGainStep ==
    /\ usb_gain' # usb_gain =>
          HandlesUsb /\ USB_GAIN_SIGNAL # <<>> /\ usb_gain' = Head(USB_GAIN_SIGNAL)
    /\ pot_gain' # pot_gain =>
          /\ HandlesSpdif /\ POT_GAIN_SIGNAL # <<>>
          /\ pot_gain' = <<Head(POT_GAIN_SIGNAL), Head(POT_GAIN_SIGNAL)>>
    /\ HandlesUsb =>
          /\ USB_GAIN_SIGNAL # <<>> => usb_gain' = Head(USB_GAIN_SIGNAL)
          /\ USB_GAIN_SIGNAL' = <<>>
          /\ <<gain_left', gain_right'>> = usb_gain'
          /\ POT_GAIN_SIGNAL' = POT_GAIN_SIGNAL
    /\ HandlesSpdif =>
          /\ POT_GAIN_SIGNAL # <<>> => pot_gain'[1] = Head(POT_GAIN_SIGNAL)
          /\ POT_GAIN_SIGNAL' = <<>>
          /\ <<gain_left', gain_right'>> = pot_gain'
          /\ USB_GAIN_SIGNAL' = USB_GAIN_SIGNAL
    /\ (USB_GAIN_SIGNAL # <<>> /\ USB_GAIN_SIGNAL' = <<>>) => HandlesUsb
    /\ (POT_GAIN_SIGNAL # <<>> /\ POT_GAIN_SIGNAL' = <<>>) => HandlesSpdif
    /\ (pc' = "write" /\ sample_block'.tag = "Usb") =>
          <<gain_left', gain_right'>> \in ({ <<0, 0>> } \cup UsbGains)
    /\ (pc' = "write" /\ sample_block'.tag = "Spdif") => gain_left' = gain_right'

\* The dual-I2S task applies the volume it holds to the block it processes.
I2sVolumeApplied ==
    (i2sPc = "process" /\ i2sPc' # "process") =>
        /\ volume' = volume
        /\ processed_samples_left' = BufferOf(slots[samples], 1, volume[1])
        /\ processed_samples_right' = BufferOf(slots[samples], 2, volume[2])

\* The snapshots start at (0.0, 0.0).
GainsStartAtZero ==
    usb_gain = <<0, 0>> /\ pot_gain = <<0, 0>> /\ volume = <<0, 0>>

\* C20 as stated: the gain applied to a block is a snapshot held by the
\* routing task, (0.0, 0.0) at first, replaced by the pending value when one
\* is pending at the time a block is handled and otherwise retained from the
\* previous block; in the SAI task a gain of one source is never applied to
\* blocks of the other and is not consumed while only mismatched or no blocks
\* are handled.  For the dual-I2S task "retained from the previous block"
\* means that, once a block has been processed, the volume changes only in a
\* step that receives a block.
C20_GainSnapshot ==
    /\ GainsStartAtZero
    /\ [][/\ SaiGainStep
          /\ I2sVolumeApplied
          /\ (volume' # volume /\ processed_samples_left # <<>>) =>
                /\ i2sPc = "receive" /\ i2sPc' = "process"
                /\ VOLUME_SIGNAL # <<>> /\ volume' = Head(VOLUME_SIGNAL)]_vars

\* C20, amended: as C20 for the SAI task; the dual-I2S task takes a pending
\* volume whenever receive() completes, with a block or on its timeout, so
\* the volume applied to a block is the one most recently taken, which may
\* have been taken on a timeout between two blocks.
C20_GainSnapshotOnReceive ==
    /\ GainsStartAtZero
    /\ [][/\ SaiGainStep
          /\ I2sVolumeApplied
          /\ volume' # volume =>
                /\ i2sPc = "receive" /\ i2sPc' # "receive"
                /\ VOLUME_SIGNAL # <<>> /\ volume' = Head(VOLUME_SIGNAL)
          /\ (i2sPc = "receive" /\ i2sPc' # "receive") =>
                /\ VOLUME_SIGNAL # <<>> => volume' = Head(VOLUME_SIGNAL)
                /\ VOLUME_SIGNAL = <<>> => volume' = volume
                /\ VOLUME_SIGNAL' = <<>>]_vars

\* A Usb block is about to be written with a USB gain taken from the signal
\* while a potentiometer gain is still pending.
C20_Witness ==
    /\ pc = "write"
    /\ sample_block.tag = "Usb"
    /\ <<gain_left, gain_right>> \in UsbGains
    /\ usb_gain = <<gain_left, gain_right>>
    /\ USB_GAIN_SIGNAL = <<>>
    /\ POT_GAIN_SIGNAL # <<>>
    /\ pot_gain = <<0, 0>>


\* ---- C21 ----
\* The select completed with a block / with the write error.
ReceivedBlock == pc = "select" /\ pc' = "check" /\ sample_block' # NoBlock
SawWriteError == pc = "select" /\ pc' = "check" /\ sample_block' = NoBlock

\* C21: in the SAI task the resolved source only moves None -> Spdif or
\* None -> Usb on a received block and Spdif/Usb -> None on a write error seen
\* by the select; it never moves from one concrete source to another and is
\* never RaspberryPi; while a source is latched a block of the other source is
\* dropped, not processed; and last_source equals source at the start of
\* every loop iteration.
C21_SourceMoves ==
    /\ [](/\ source \in {"None", "Spdif", "Usb"}
          /\ last_source \in {"None", "Spdif", "Usb"}
          /\ pc = "select" => last_source = source
          /\ pc \in {"write", "panicked"} => sample_block.tag = source)
    /\ [][/\ source' # source =>
                \/ /\ source = "None" /\ source' \in BlockTag
                   /\ ReceivedBlock /\ source' = sample_block'.tag
                \/ /\ source \in BlockTag /\ source' = "None"
                   /\ SawWriteError /\ sai_amp.error
          /\ SawWriteError => source' = "None"
          /\ (ReceivedBlock /\ source # "None") => source' = source
          /\ (/\ pc = "match" /\ pc' # "match"
              /\ sample_block # NoBlock /\ sample_block.tag # source) =>
                /\ source \in BlockTag
                /\ pc' = "select"
                /\ processed' = processed /\ written' = written
                /\ sample_block.id \in droppedBlocks']_vars

\* A source was latched, a block of the other source was dropped while it
\* was, and a write error has since taken the source back to None: the task
\* is at the start of an iteration with nothing latched.
C21_Witness ==
    /\ pc = "select"
    /\ source = "None" /\ last_source = "None"
    /\ errCount > 0
    /\ droppedBlocks # {}
    /\ written # {}
    /\ sai_amp.source = "None" /\ sai_amp.id > 3


\* ---- C22 ----
\* The task is inside the handling of a source change.
InChange == pc \in {"leds", "drop", "new", "signal", "wait", "clear", "start"}

\* What holds of the blocks around a source change: the block that latched
\* the source is the one matched after the handshake and its arm processes
\* it; a block removed by the clear is never received, processed, written or
\* dropped; after a change to None the iteration holds and processes no block.
HandshakeBlocks ==
    /\ (changed /\ pc = "match" /\ sample_block # NoBlock) =>
          sample_block.tag = source
    /\ discarded \cap (processed \cup written \cup droppedBlocks) = {}
    /\ sample_block.id \notin discarded
    /\ (changed /\ last_source = "None") =>
          /\ sample_block = NoBlock
          /\ pc \notin {"write", "panicked"}
          /\ \A k \in 1..Len(steps) : steps[k] \notin {"process", "write"}

\* The steps of a source change: the latching block is kept, no block leaves
\* the channel before the clear, and the clear removes every block the
\* channel holds, those enqueued during the wait included.
HandshakeStep ==
    /\ InChange => sample_block' = sample_block
    /\ (InChange /\ pc # "clear" /\ pc # "start") =>
          /\ Len(queue') >= Len(queue)
          /\ SubSeq(queue', 1, Len(queue)) = queue
    /\ (pc = "clear" /\ pc' # "clear") =>
          /\ queue' = <<>>
          /\ \A k \in 1..Len(queue) : queue[k].id \in discarded'

\* C22: provided the external subsystem acknowledges every notification, the
\* SAI task never stays blocked in a source change but eventually returns to
\* waiting in the select; the block that latched the source is processed and
\* written after the handshake; the blocks enqueued during the handshake wait
\* are discarded by the clear and never processed; after a change to None no
\* block is processed in that iteration.  An iteration that returns to the
\* select does not end the task.
C22_HandshakeCompletes ==
    /\ [](changed => pc # "panicked")
    /\ InChange ~> pc = "select"
    /\ \A id \in 1..MaxBlocks :
          (InChange /\ sample_block.id = id) ~>
              (id \in processed /\ id \in written)
    /\ []HandshakeBlocks
    /\ [][HandshakeStep]_vars

====
